---- MODULE Spec2Model ----
(***************************************************************************)
(* A model of glypto's provider resolution engine: the providers, the      *)
(* ProviderRegistry, the Metadata accumulator and the Scraper.             *)
(*                                                                         *)
(* Strings are sequences of one-character strings, so that startsWith,     *)
(* slice, trim and toLowerCase are computed as the code computes them.     *)
(* JavaScript's null and undefined are the one value Null.                 *)
(***************************************************************************)
EXTENDS Integers, Sequences, FiniteSets, TLC

(* ------------------------------------------------------------------ *)
(* Bounds of the model                                                  *)
(* ------------------------------------------------------------------ *)

\* registrations per registry in SpecRegistry
MaxProviders == 3

\* addData calls per Metadata in SpecMetadata
MaxAdds == 2

\* elements per document in SpecScraper
MaxNodes == 3

\* feeds a consumer pushes in SpecMetadata
MaxFeeds == 1

\* changes a caller makes to one array it got from getProviders
MaxMutations == 2

\* scrape calls on one Scraper in SpecRepeat
MaxScrapes == 2

(* ------------------------------------------------------------------ *)
(* Strings                                                              *)
(* ------------------------------------------------------------------ *)

Null == <<"NULL">>

Empty == <<>>

\* JavaScript truthiness of a string-or-null value
Truthy(v) == v # Null /\ v # Empty

\* a || b
OrElse(a, b) == IF Truthy(a) THEN a ELSE b

StartsWith(s, p) == Len(s) >= Len(p) /\ SubSeq(s, 1, Len(p)) = p

\* s?.startsWith(p), then coerced by || / ?? false / !
OptStartsWith(s, p) == s # Null /\ StartsWith(s, p)

Slice(s, n) == IF n >= Len(s) THEN Empty ELSE SubSeq(s, n + 1, Len(s))

WhiteSpace == {" ", "\t", "\n"}

RECURSIVE TrimStart(_)
TrimStart(s) ==
  IF s # Empty /\ Head(s) \in WhiteSpace THEN TrimStart(Tail(s)) ELSE s

RECURSIVE TrimEnd(_)
TrimEnd(s) ==
  IF s # Empty /\ s[Len(s)] \in WhiteSpace
  THEN TrimEnd(SubSeq(s, 1, Len(s) - 1))
  ELSE s

Trim(s) == TrimEnd(TrimStart(s))

UpperCase ==
  <<"A","B","C","D","E","F","G","H","I","J","K","L","M",
    "N","O","P","Q","R","S","T","U","V","W","X","Y","Z">>

LowerCase ==
  <<"a","b","c","d","e","f","g","h","i","j","k","l","m",
    "n","o","p","q","r","s","t","u","v","w","x","y","z">>

LowerOf(c) ==
  IF \E i \in 1..Len(UpperCase) : UpperCase[i] = c
  THEN LowerCase[CHOOSE i \in 1..Len(UpperCase) : UpperCase[i] = c]
  ELSE c

ToLowerCase(s) == [i \in 1..Len(s) |-> LowerOf(s[i])]

\* string literals of the source
sOgPrefix      == <<"o","g",":">>
sTwitterPrefix == <<"t","w","i","t","t","e","r",":">>
sMeta          == <<"m","e","t","a">>
sTitle         == <<"t","i","t","l","e">>
sH1            == <<"h","1">>
sLink          == <<"l","i","n","k">>
sFirstHeading  == <<"f","i","r","s","t","H","e","a","d","i","n","g">>
sIcon          == <<"i","c","o","n">>
sShortcutIcon  == <<"s","h","o","r","t","c","u","t"," ","i","c","o","n">>
sAlternate     == <<"a","l","t","e","r","n","a","t","e">>
sFaviconIco    == <<"/","f","a","v","i","c","o","n",".","i","c","o">>
sDescription   == <<"d","e","s","c","r","i","p","t","i","o","n">>
sImage         == <<"i","m","a","g","e">>
sUrl           == <<"u","r","l">>
sSiteName      == <<"s","i","t","e","_","n","a","m","e">>
sSite          == <<"s","i","t","e">>
sOpenGraph     == <<"o","p","e","n","G","r","a","p","h">>
sTwitter       == <<"t","w","i","t","t","e","r">>
sOther         == <<"o","t","h","e","r">>
sJsonLd        == <<"j","s","o","n","L","d">>

(* ------------------------------------------------------------------ *)
(* Elements: the part of the DOM the code reads                         *)
(* ------------------------------------------------------------------ *)

\* getAttribute(a): the attribute's value, Null when it is absent
GetAttribute(el, a) == el.attrs[a]

AttrNames ==
  {"property", "name", "content", "rel", "href", "type", "title",
   "mock-provider", "mock-key", "mock-value"}

NoAttrs == [a \in AttrNames |-> Null]

\* a record's fields laid over NoAttrs
WithAttrs(given) ==
  [a \in AttrNames |-> IF a \in DOMAIN given THEN given[a] ELSE Null]

Element(tag, given, text) ==
  [tagName |-> tag, attrs |-> WithAttrs(given), textContent |-> text]

TagLower(el) == ToLowerCase(el.tagName)

(* ------------------------------------------------------------------ *)
(* Providers                                                            *)
(* ------------------------------------------------------------------ *)

\* scrape() returned null
NoData == [key |-> Null, value |-> Null]

KeyValue(k, v) == [key |-> k, value |-> v]

\* A priority is a JavaScript number; the model holds it as the fraction
\* <<numerator, denominator>> so that 0.5 is <<1, 2>>.
\* The sign of a.priority - b.priority
ComparePriority(a, b) ==
  LET d == a.priority[1] * b.priority[2] - b.priority[1] * a.priority[2]
  IN  IF d < 0 THEN -1 ELSE IF d > 0 THEN 1 ELSE 0

OpenGraphProvider ==
  [kind |-> "openGraph", name |-> sOpenGraph, priority |-> <<1, 1>>]

TwitterProvider ==
  [kind |-> "twitter", name |-> sTwitter, priority |-> <<2, 1>>]

StandardMetaProvider ==
  [kind |-> "meta", name |-> sMeta, priority |-> <<3, 1>>]

OtherElementsProvider ==
  [kind |-> "other", name |-> sOther, priority |-> <<4, 1>>]

JsonLdProvider ==
  [kind |-> "jsonLd", name |-> sJsonLd, priority |-> <<1, 2>>]

\* the tests' MockProvider(name, priority)
MockProvider(n, prio) == [kind |-> "mock", name |-> n, priority |-> prio]

\* no provider instance
NoProvider == [kind |-> "none", name |-> Empty, priority |-> <<0, 1>>]

OpenGraphCanHandle(el) ==
  LET property == GetAttribute(el, "property")
      name     == GetAttribute(el, "name")
  IN  OptStartsWith(property, sOgPrefix) \/ OptStartsWith(name, sOgPrefix)

\* An OpenGraph scrape that keeps the og: prefix in the key.
OpenGraphScrapeKeepPrefix(el) ==
  LET property == OrElse(GetAttribute(el, "property"), GetAttribute(el, "name"))
      content  == GetAttribute(el, "content")
  IN  IF ~Truthy(property) \/ ~Truthy(content) \/ ~OpenGraphCanHandle(el)
      THEN NoData
      ELSE KeyValue(property, content)

OpenGraphScrape(el) ==
  LET property == OrElse(GetAttribute(el, "property"), GetAttribute(el, "name"))
      content  == GetAttribute(el, "content")
  IN  IF ~Truthy(property) \/ ~Truthy(content) \/ ~OpenGraphCanHandle(el)
      THEN NoData
      ELSE KeyValue(Slice(property, 3), content)

TwitterCanHandle(el) ==
  LET property == GetAttribute(el, "property")
      name     == GetAttribute(el, "name")
  IN  OptStartsWith(property, sTwitterPrefix)
        \/ OptStartsWith(name, sTwitterPrefix)

TwitterScrape(el) ==
  LET property == OrElse(GetAttribute(el, "property"), GetAttribute(el, "name"))
      content  == GetAttribute(el, "content")
  IN  IF ~Truthy(property) \/ ~Truthy(content) \/ ~TwitterCanHandle(el)
      THEN NoData
      ELSE KeyValue(Slice(property, 8), content)

\* A StandardMeta canHandle that tests the prefixes on the name alone.
StandardMetaCanHandleNameOnly(el) ==
  LET property == GetAttribute(el, "property")
      name     == GetAttribute(el, "name")
      content  == GetAttribute(el, "content")
  IN  /\ Truthy(content)
      /\ (Truthy(name) \/ Truthy(property))
      /\ ~OptStartsWith(name, sOgPrefix)
      /\ ~OptStartsWith(name, sTwitterPrefix)

StandardMetaCanHandle(el) ==
  LET property == GetAttribute(el, "property")
      name     == GetAttribute(el, "name")
      content  == GetAttribute(el, "content")
  IN  /\ Truthy(content)
      /\ (Truthy(name) \/ Truthy(property))
      /\ ~OptStartsWith(name, sOgPrefix)
      /\ ~OptStartsWith(name, sTwitterPrefix)
      /\ ~OptStartsWith(property, sOgPrefix)
      /\ ~OptStartsWith(property, sTwitterPrefix)

\* A StandardMeta scrape in which property wins over name.
StandardMetaScrapePropertyFirst(el) ==
  LET name    == OrElse(GetAttribute(el, "property"), GetAttribute(el, "name"))
      content == GetAttribute(el, "content")
  IN  IF ~Truthy(name) \/ ~Truthy(content) \/ ~StandardMetaCanHandle(el)
      THEN NoData
      ELSE KeyValue(name, content)

StandardMetaScrape(el) ==
  LET name    == OrElse(GetAttribute(el, "name"), GetAttribute(el, "property"))
      content == GetAttribute(el, "content")
  IN  IF ~Truthy(name) \/ ~Truthy(content) \/ ~StandardMetaCanHandle(el)
      THEN NoData
      ELSE KeyValue(name, content)

OtherElementsCanHandle(el) ==
  LET tagName == TagLower(el)
  IN  \/ tagName = sTitle
      \/ tagName = sH1
      \/ (tagName = sLink /\ Truthy(GetAttribute(el, "rel")))

\* An OtherElements scrape that drops a text that is empty once trimmed.
OtherElementsScrapeSkipBlank(el) ==
  LET tagName == TagLower(el)
      rel     == GetAttribute(el, "rel")
      href    == GetAttribute(el, "href")
  IN  IF tagName = sTitle /\ Truthy(el.textContent)
         /\ Trim(el.textContent) # Empty
      THEN KeyValue(sTitle, Trim(el.textContent))
      ELSE IF tagName = sH1 /\ Truthy(el.textContent)
              /\ Trim(el.textContent) # Empty
      THEN KeyValue(sFirstHeading, Trim(el.textContent))
      ELSE IF tagName = sLink /\ Truthy(rel) /\ Truthy(href) /\ rel = sIcon
      THEN KeyValue(sIcon, href)
      ELSE IF tagName = sLink /\ Truthy(rel) /\ Truthy(href)
              /\ rel = sShortcutIcon
      THEN KeyValue(sShortcutIcon, href)
      ELSE NoData

\* An OtherElements scrape that extracts from a link of any rel.
OtherElementsScrapeAnyRel(el) ==
  LET tagName == TagLower(el)
      rel     == GetAttribute(el, "rel")
      href    == GetAttribute(el, "href")
  IN  IF tagName = sTitle /\ Truthy(el.textContent)
      THEN KeyValue(sTitle, Trim(el.textContent))
      ELSE IF tagName = sH1 /\ Truthy(el.textContent)
      THEN KeyValue(sFirstHeading, Trim(el.textContent))
      ELSE IF tagName = sLink /\ Truthy(rel) /\ Truthy(href)
      THEN KeyValue(rel, href)
      ELSE NoData

OtherElementsScrape(el) ==
  LET tagName == TagLower(el)
      rel     == GetAttribute(el, "rel")
      href    == GetAttribute(el, "href")
  IN  IF tagName = sTitle /\ Truthy(el.textContent)
      THEN KeyValue(sTitle, Trim(el.textContent))
      ELSE IF tagName = sH1 /\ Truthy(el.textContent)
      THEN KeyValue(sFirstHeading, Trim(el.textContent))
      ELSE IF tagName = sLink /\ Truthy(rel) /\ Truthy(href) /\ rel = sIcon
      THEN KeyValue(sIcon, href)
      ELSE IF tagName = sLink /\ Truthy(rel) /\ Truthy(href)
              /\ rel = sShortcutIcon
      THEN KeyValue(sShortcutIcon, href)
      ELSE NoData

\* JSON values as JSON.parse builds them. An object is its members in
\* source order, each [key, value]; a property read takes the last member
\* of that key, as a repeated key overwrites.
JNull == [t |-> "null"]

JBool(b) == [t |-> "boolean", b |-> b]

JNum(n) == [t |-> "number", n |-> n]

JStr(s) == [t |-> "string", s |-> s]

JArr(items) == [t |-> "array", items |-> items]

JObj(members) == [t |-> "object", members |-> members]

Member(k, v) == [key |-> k, value |-> v]

\* the value of a property that is not there
JUndefined == [t |-> "undefined"]

Digits == <<"0", "1", "2", "3", "4", "5", "6", "7", "8", "9">>

IsDigit(c) == \E i \in 1..10 : Digits[i] = c

DigitValue(c) == (CHOOSE i \in 1..10 : Digits[i] = c) - 1

\* the white space of the JSON grammar
JsonWhiteSpace == {" ", "\t", "\n", "\r"}

RECURSIVE SkipWhiteSpace(_, _)
SkipWhiteSpace(text, pos) ==
  IF pos <= Len(text) /\ text[pos] \in JsonWhiteSpace
  THEN SkipWhiteSpace(text, pos + 1)
  ELSE pos

\* A parse step yields [ok, value, pos]: whether it succeeded, the value
\* read and the position after it. Failure is JSON.parse's SyntaxError.
SyntaxError == [ok |-> FALSE, value |-> JUndefined, pos |-> 0]

ParsedTo(v, pos) == [ok |-> TRUE, value |-> v, pos |-> pos]

\* the literal lit stands in text at pos
HasAt(text, pos, lit) ==
  /\ pos + Len(lit) - 1 <= Len(text)
  /\ SubSeq(text, pos, pos + Len(lit) - 1) = lit

\* the characters of a string after its opening quote, up to the closing
\* one. The escapes read are \" \\ \/ \n \t; a raw control character ends
\* the parse.
RECURSIVE ParseChars(_, _, _)
ParseChars(text, pos, acc) ==
  IF pos > Len(text) THEN SyntaxError
  ELSE IF text[pos] = "\"" THEN ParsedTo(JStr(acc), pos + 1)
  ELSE IF text[pos] = "\\"
  THEN IF pos + 1 > Len(text) THEN SyntaxError
       ELSE IF text[pos + 1] \in {"\"", "\\", "/"}
       THEN ParseChars(text, pos + 2, Append(acc, text[pos + 1]))
       ELSE IF text[pos + 1] = "n"
       THEN ParseChars(text, pos + 2, Append(acc, "\n"))
       ELSE IF text[pos + 1] = "t"
       THEN ParseChars(text, pos + 2, Append(acc, "\t"))
       ELSE SyntaxError
  ELSE IF text[pos] \in {"\t", "\n", "\r"} THEN SyntaxError
  ELSE ParseChars(text, pos + 1, Append(acc, text[pos]))

\* the digits of an unsigned integer; n is the value read so far
RECURSIVE ParseDigits(_, _, _)
ParseDigits(text, pos, n) ==
  IF pos <= Len(text) /\ IsDigit(text[pos])
  THEN ParseDigits(text, pos + 1, 10 * n + DigitValue(text[pos]))
  ELSE ParsedTo(JNum(n), pos)

\* a number: 0, or a non-zero digit and more digits
ParseNumber(text, pos) ==
  IF text[pos] = "0" THEN ParsedTo(JNum(0), pos + 1)
  ELSE ParseDigits(text, pos, 0)

RECURSIVE ParseValue(_, _)
RECURSIVE ParseMembers(_, _, _)
RECURSIVE ParseItems(_, _, _)

\* the members of an object from the one at pos on, up to its closing brace
ParseMembers(text, pos0, acc) ==
  LET pos == SkipWhiteSpace(text, pos0)
  IN  IF pos > Len(text) \/ text[pos] # "\"" THEN SyntaxError
      ELSE LET k == ParseChars(text, pos + 1, <<>>)
           IN  IF ~k.ok THEN SyntaxError
               ELSE LET c == SkipWhiteSpace(text, k.pos)
                    IN  IF c > Len(text) \/ text[c] # ":" THEN SyntaxError
                        ELSE LET v == ParseValue(text, c + 1)
                                 e == SkipWhiteSpace(text, v.pos)
                                 members == Append(acc, Member(k.value.s,
                                                               v.value))
                             IN  IF ~v.ok \/ e > Len(text) THEN SyntaxError
                                 ELSE IF text[e] = "}"
                                 THEN ParsedTo(JObj(members), e + 1)
                                 ELSE IF text[e] = ","
                                 THEN ParseMembers(text, e + 1, members)
                                 ELSE SyntaxError

\* the items of an array from the one at pos on, up to its closing bracket
ParseItems(text, pos, acc) ==
  LET v == ParseValue(text, pos)
      e == SkipWhiteSpace(text, v.pos)
      items == Append(acc, v.value)
  IN  IF ~v.ok \/ e > Len(text) THEN SyntaxError
      ELSE IF text[e] = "]" THEN ParsedTo(JArr(items), e + 1)
      ELSE IF text[e] = "," THEN ParseItems(text, e + 1, items)
      ELSE SyntaxError

ParseValue(text, pos0) ==
  LET pos == SkipWhiteSpace(text, pos0)
  IN  IF pos > Len(text) THEN SyntaxError
      ELSE IF HasAt(text, pos, <<"n", "u", "l", "l">>)
      THEN ParsedTo(JNull, pos + 4)
      ELSE IF HasAt(text, pos, <<"t", "r", "u", "e">>)
      THEN ParsedTo(JBool(TRUE), pos + 4)
      ELSE IF HasAt(text, pos, <<"f", "a", "l", "s", "e">>)
      THEN ParsedTo(JBool(FALSE), pos + 5)
      ELSE IF text[pos] = "\"" THEN ParseChars(text, pos + 1, <<>>)
      ELSE IF IsDigit(text[pos]) THEN ParseNumber(text, pos)
      ELSE IF text[pos] = "{"
      THEN LET p == SkipWhiteSpace(text, pos + 1)
           IN  IF p <= Len(text) /\ text[p] = "}"
               THEN ParsedTo(JObj(<<>>), p + 1)
               ELSE ParseMembers(text, p, <<>>)
      ELSE IF text[pos] = "["
      THEN LET p == SkipWhiteSpace(text, pos + 1)
           IN  IF p <= Len(text) /\ text[p] = "]"
               THEN ParsedTo(JArr(<<>>), p + 1)
               ELSE ParseItems(text, p, <<>>)
      ELSE SyntaxError

\* JSON.parse(text): one value, white space around it, nothing after it.
\* Numbers are unsigned integers.
WholeText(text, r) ==
  IF r.ok /\ SkipWhiteSpace(text, r.pos) > Len(text) THEN r ELSE SyntaxError

JsonParse(text) == WholeText(text, ParseValue(text, 1))

RECURSIVE NumberToString(_)
NumberToString(n) ==
  IF n < 10 THEN <<Digits[n + 1]>>
  ELSE NumberToString(n \div 10) \o <<Digits[(n % 10) + 1]>>

\* a string between quotes, its quotes, backslashes, newlines and tabs
\* escaped
RECURSIVE EscapeChars(_)
EscapeChars(s) ==
  IF s = <<>> THEN <<>>
  ELSE (IF Head(s) \in {"\"", "\\"} THEN <<"\\", Head(s)>>
        ELSE IF Head(s) = "\n" THEN <<"\\", "n">>
        ELSE IF Head(s) = "\t" THEN <<"\\", "t">>
        ELSE <<Head(s)>>)
         \o EscapeChars(Tail(s))

Quote(s) == <<"\"">> \o EscapeChars(s) \o <<"\"">>

RECURSIVE JsonStringify(_)
RECURSIVE StringifyMembers(_)
RECURSIVE StringifyItems(_)

StringifyMembers(members) ==
  IF members = <<>> THEN <<>>
  ELSE Quote(Head(members).key) \o <<":">>
         \o JsonStringify(Head(members).value)
         \o (IF Len(members) > 1 THEN <<",">> ELSE <<>>)
         \o StringifyMembers(Tail(members))

StringifyItems(items) ==
  IF items = <<>> THEN <<>>
  ELSE JsonStringify(Head(items))
         \o (IF Len(items) > 1 THEN <<",">> ELSE <<>>)
         \o StringifyItems(Tail(items))

\* JSON.stringify(v), of an object whose keys are distinct
JsonStringify(v) ==
  CASE v.t = "null"    -> <<"n", "u", "l", "l">>
    [] v.t = "boolean" -> IF v.b THEN <<"t", "r", "u", "e">>
                          ELSE <<"f", "a", "l", "s", "e">>
    [] v.t = "number"  -> NumberToString(v.n)
    [] v.t = "string"  -> Quote(v.s)
    [] v.t = "array"   -> <<"[">> \o StringifyItems(v.items) \o <<"]">>
    [] v.t = "object"  -> <<"{">> \o StringifyMembers(v.members) \o <<"}">>

\* v[key] for a v that is neither null nor undefined: an object's last
\* member of that key; none of the keys read here is a property of a
\* string, a number, a boolean or an array
GetProperty(v, key) ==
  IF v.t = "object"
  THEN LET found == {i \in 1..Len(v.members) : v.members[i].key = key}
       IN  IF found = {} THEN JUndefined
           ELSE v.members[CHOOSE i \in found : \A j \in found : j <= i].value
  ELSE JUndefined

\* a JSON value in a condition
JsonTruthy(v) ==
  CASE v.t = "string"  -> v.s # <<>>
    [] v.t = "number"  -> v.n # 0
    [] v.t = "boolean" -> v.b
    [] v.t \in {"object", "array"} -> TRUE
    [] v.t \in {"null", "undefined"} -> FALSE

\* v === s for a string s
StrictEqualsString(v, s) == v.t = "string" /\ v.s = s

\* A JSON value handed out as the value of an extraction: a string is its
\* characters, anything else is named by its type.
ValueOf(v) ==
  CASE v.t = "string"  -> v.s
    [] v.t = "number"  -> <<"[number]">>
    [] v.t = "boolean" -> <<"[boolean]">>
    [] v.t = "array"   -> <<"[array]">>
    [] v.t = "object"  -> <<"[object]">>

sScript   == <<"s","c","r","i","p","t">>
sLdJson   == <<"a","p","p","l","i","c","a","t","i","o","n","/",
               "l","d","+","j","s","o","n">>
sAtType   == <<"@","t","y","p","e">>
sArticle  == <<"A","r","t","i","c","l","e">>
sWebPage  == <<"W","e","b","P","a","g","e">>
sHeadline == <<"h","e","a","d","l","i","n","e">>

JsonLdCanHandle(el) ==
  TagLower(el) = sScript /\ GetAttribute(el, "type") = sLdJson

\* A call that did not return: it threw the error named.
Thrown(error) == [key |-> Null, value |-> <<error>>]

IsThrown(data) == data.key = Null /\ data.value # Null

\* A field order that tests description before headline.
FirstFieldDescriptionFirst(jsonData) ==
  LET headline    == GetProperty(jsonData, sHeadline)
      description == GetProperty(jsonData, sDescription)
      image       == GetProperty(jsonData, sImage)
  IN  IF JsonTruthy(description)
      THEN KeyValue(sDescription, ValueOf(description))
      ELSE IF JsonTruthy(headline) THEN KeyValue(sTitle, ValueOf(headline))
      ELSE IF JsonTruthy(image) /\ JsonTruthy(GetProperty(image, sUrl))
      THEN KeyValue(sImage, ValueOf(GetProperty(image, sUrl)))
      ELSE NoData

\* the fields of a parsed Article or WebPage, in the order they are tested
FirstField(jsonData) ==
  LET headline    == GetProperty(jsonData, sHeadline)
      description == GetProperty(jsonData, sDescription)
      image       == GetProperty(jsonData, sImage)
  IN  IF JsonTruthy(headline) THEN KeyValue(sTitle, ValueOf(headline))
      ELSE IF JsonTruthy(description)
      THEN KeyValue(sDescription, ValueOf(description))
      ELSE IF JsonTruthy(image) /\ JsonTruthy(GetProperty(image, sUrl))
      THEN KeyValue(sImage, ValueOf(GetProperty(image, sUrl)))
      ELSE NoData

\* the try block of JsonLdProvider.scrape: JSON.parse throws a SyntaxError
\* on a text that is no JSON, and reading '@type' of null throws a
\* TypeError
JsonLdRead(parsed) ==
  IF ~parsed.ok THEN Thrown("SyntaxError")
  ELSE IF parsed.value.t = "null" THEN Thrown("TypeError")
  ELSE IF \/ StrictEqualsString(GetProperty(parsed.value, sAtType), sArticle)
          \/ StrictEqualsString(GetProperty(parsed.value, sAtType), sWebPage)
  THEN FirstField(parsed.value)
  ELSE NoData

JsonLdTry(el) ==
  IF ~Truthy(el.textContent) THEN NoData
  ELSE JsonLdRead(JsonParse(el.textContent))

\* A JsonLd scrape without the catch.
JsonLdScrapeUncaught(el) == JsonLdTry(el)

\* JsonLdProvider.scrape: what the try block returns, null when it threw
Caught(data) == IF IsThrown(data) THEN NoData ELSE data

JsonLdScrape(el) == Caught(JsonLdTry(el))

MockCanHandle(p, el) == GetAttribute(el, "mock-provider") = p.name

MockScrape(el) ==
  LET key   == GetAttribute(el, "mock-key")
      value == GetAttribute(el, "mock-value")
  IN  IF Truthy(key) /\ Truthy(value) THEN KeyValue(key, value) ELSE NoData

\* provider.canHandle(element)
CanHandle(p, el) ==
  CASE p.kind = "openGraph" -> OpenGraphCanHandle(el)
    [] p.kind = "twitter"   -> TwitterCanHandle(el)
    [] p.kind = "meta"      -> StandardMetaCanHandle(el)
    [] p.kind = "other"     -> OtherElementsCanHandle(el)
    [] p.kind = "jsonLd"    -> JsonLdCanHandle(el)
    [] p.kind = "mock"      -> MockCanHandle(p, el)

\* provider.scrape(element)
Scrape(p, el) ==
  CASE p.kind = "openGraph" -> OpenGraphScrape(el)
    [] p.kind = "twitter"   -> TwitterScrape(el)
    [] p.kind = "meta"      -> StandardMetaScrape(el)
    [] p.kind = "other"     -> OtherElementsScrape(el)
    [] p.kind = "jsonLd"    -> JsonLdScrape(el)
    [] p.kind = "mock"      -> MockScrape(el)

\* A getValue that returns the last value of the list.
GetLastValue(key, data) ==
  IF key \in DOMAIN data /\ Len(data[key]) > 0
  THEN data[key][Len(data[key])]
  ELSE Null

\* provider.getValue(key, data): the same body in every provider class.
\* data is one provider's Map: a function from its keys to value lists.
GetValue(key, data) ==
  IF key \in DOMAIN data /\ Len(data[key]) > 0 THEN data[key][1] ELSE Null

(* ------------------------------------------------------------------ *)
(* ProviderRegistry                                                     *)
(* ------------------------------------------------------------------ *)

\* An unstable sort: x goes before the elements of its own priority.
RECURSIVE InsertBeforeEqualPriority(_, _)
InsertBeforeEqualPriority(sorted, x) ==
  IF sorted = <<>> THEN <<x>>
  ELSE IF ComparePriority(Head(sorted), x) >= 0 THEN <<x>> \o sorted
  ELSE <<Head(sorted)>> \o InsertBeforeEqualPriority(Tail(sorted), x)

\* Array.prototype.sort((a, b) => a.priority - b.priority): a stable sort.
\* x goes before the first element that compares greater than x.
RECURSIVE InsertByPriority(_, _)
InsertByPriority(sorted, x) ==
  IF sorted = <<>> THEN <<x>>
  ELSE IF ComparePriority(Head(sorted), x) > 0 THEN <<x>> \o sorted
  ELSE <<Head(sorted)>> \o InsertByPriority(Tail(sorted), x)

RECURSIVE SortByPriority(_)
SortByPriority(list) ==
  IF list = <<>> THEN <<>>
  ELSE InsertByPriority(SortByPriority(SubSeq(list, 1, Len(list) - 1)),
                        list[Len(list)])

\* registerProvider(provider): push, then sort
RegisterProviderOp(provs, p) == SortByPriority(Append(provs, p))

\* new ProviderRegistry(list): registerProvider for each element in order
RECURSIVE NewProviderRegistry(_)
NewProviderRegistry(list) ==
  IF list = <<>> THEN <<>>
  ELSE RegisterProviderOp(NewProviderRegistry(SubSeq(list, 1, Len(list) - 1)),
                          list[Len(list)])

\* getProviders(): a copy of the array
GetProviders(provs) == [i \in 1..Len(provs) |-> provs[i]]

\* An array in a caller's hands is [held, shared, items]: whether the caller
\* holds one, whether it is the very array object of the registry, and its
\* elements.
\* A getProviders that returns this.providers itself.
GetProvidersShared(provs) == [held |-> TRUE, shared |-> TRUE, items |-> provs]

\* registry.getProviders() as the caller receives it: [...this.providers]
\* is a new array object
GetProvidersOp(provs) ==
  [held |-> TRUE, shared |-> FALSE, items |-> GetProviders(provs)]

\* Array.prototype.reverse
Reverse(list) == [i \in 1..Len(list) |-> list[Len(list) + 1 - i]]

\* scrapeFromElement returned null
NoExtraction == [provider |-> 0, data |-> NoData]

\* scrapeFromElement(element), from the provider at index i on.
\* The result is [provider |-> index of the provider, data |-> its result],
\* calls is the sequence of provider methods the registry called.
RECURSIVE ScrapeFromElementAt(_, _, _, _)
ScrapeFromElementAt(provs, el, i, calls) ==
  IF i > Len(provs) THEN [result |-> NoExtraction, calls |-> calls]
  ELSE IF CanHandle(provs[i], el)
  THEN LET data == Scrape(provs[i], el)
           seen == calls \o << <<"canHandle", i>>, <<"scrape", i>> >>
       IN  IF data # NoData
           THEN [result |-> [provider |-> i, data |-> data], calls |-> seen]
           ELSE ScrapeFromElementAt(provs, el, i + 1, seen)
  ELSE ScrapeFromElementAt(provs, el, i + 1,
                           Append(calls, <<"canHandle", i>>))

\* A dispatch that stops at the first provider recognizing the node.
RECURSIVE ScrapeFromFirstRecognizerAt(_, _, _, _)
ScrapeFromFirstRecognizerAt(provs, el, i, calls) ==
  IF i > Len(provs) THEN [result |-> NoExtraction, calls |-> calls]
  ELSE IF CanHandle(provs[i], el)
  THEN LET data == Scrape(provs[i], el)
           seen == calls \o << <<"canHandle", i>>, <<"scrape", i>> >>
       IN  IF data # NoData
           THEN [result |-> [provider |-> i, data |-> data], calls |-> seen]
           ELSE [result |-> NoExtraction, calls |-> seen]
  ELSE ScrapeFromFirstRecognizerAt(provs, el, i + 1,
                                   Append(calls, <<"canHandle", i>>))

ScrapeFromFirstRecognizer(provs, el) ==
  ScrapeFromFirstRecognizerAt(provs, el, 1, <<>>)

\* A dispatch that calls scrape without asking canHandle.
RECURSIVE ScrapeUncheckedAt(_, _, _, _)
ScrapeUncheckedAt(provs, el, i, calls) ==
  IF i > Len(provs) THEN [result |-> NoExtraction, calls |-> calls]
  ELSE LET data == Scrape(provs[i], el)
           seen == Append(calls, <<"scrape", i>>)
       IN  IF data # NoData
           THEN [result |-> [provider |-> i, data |-> data], calls |-> seen]
           ELSE ScrapeUncheckedAt(provs, el, i + 1, seen)

ScrapeUnchecked(provs, el) == ScrapeUncheckedAt(provs, el, 1, <<>>)

\* A dispatch that asks every provider and then returns the first
\* extraction it came by.
RECURSIVE ScrapeFromEveryProviderAt(_, _, _, _, _)
ScrapeFromEveryProviderAt(provs, el, i, calls, first) ==
  IF i > Len(provs) THEN [result |-> first, calls |-> calls]
  ELSE IF CanHandle(provs[i], el)
  THEN LET data == Scrape(provs[i], el)
           seen == calls \o << <<"canHandle", i>>, <<"scrape", i>> >>
       IN  ScrapeFromEveryProviderAt(
             provs, el, i + 1, seen,
             IF data # NoData /\ first = NoExtraction
             THEN [provider |-> i, data |-> data]
             ELSE first)
  ELSE ScrapeFromEveryProviderAt(provs, el, i + 1,
                                 Append(calls, <<"canHandle", i>>), first)

ScrapeFromEveryProvider(provs, el) ==
  ScrapeFromEveryProviderAt(provs, el, 1, <<>>, NoExtraction)

ScrapeFromElement(provs, el) == ScrapeFromElementAt(provs, el, 1, <<>>)

\* A custom provider's getValue that returns one value whatever the data.
sEager == <<"E">>

EagerGetValue(key, data) == sEager

\* a custom provider with that getValue
EagerProvider(n, prio) == [kind |-> "eager", name |-> n, priority |-> prio]

\* A getter that did not return: it threw a TypeError.
TypeError == <<"TypeError">>

\* a member every object literal inherits from Object.prototype
sToString == <<"t","o","S","t","r","i","n","g">>

ObjectPrototypeNames == {sToString}

\* providerData[name] of the object literal providerData: the Map stored
\* under the name, else the function inherited under it, else undefined
ProviderDataAt(providerData, name) ==
  IF name \in DOMAIN providerData
  THEN [t |-> "Map", map |-> providerData[name]]
  ELSE IF name \in ObjectPrototypeNames THEN [t |-> "function"]
  ELSE [t |-> "undefined"]

\* provider.getValue(key, data) of the provider p; data.get(key) of a
\* function is a call of undefined
ProviderGetValue(p, key, data) ==
  IF p.kind = "eager" THEN EagerGetValue(key, data)
  ELSE IF data.t = "Map" THEN GetValue(key, data.map)
  ELSE TypeError

\* A resolveValue that returns the first value that is not undefined.
RECURSIVE ResolveValueDefinedAt(_, _, _, _)
ResolveValueDefinedAt(provs, key, providerData, i) ==
  IF i > Len(provs) THEN Null
  ELSE LET name  == provs[i].name
           data  == ProviderDataAt(providerData, name)
           value == IF data.t # "undefined"
                    THEN ProviderGetValue(provs[i], key, data)
                    ELSE Null
       IN  IF value # Null THEN value
           ELSE ResolveValueDefinedAt(provs, key, providerData, i + 1)

ResolveValueDefined(provs, key, providerData) ==
  ResolveValueDefinedAt(provs, key, providerData, 1)

\* resolveValue(key, providerData), from the provider at index i on.
\* providerData is a function from the provider names that have a Map.
RECURSIVE ResolveValueAt(_, _, _, _)
ResolveValueAt(provs, key, providerData, i) ==
  IF i > Len(provs) THEN Null
  ELSE LET name == provs[i].name
           data  == ProviderDataAt(providerData, name)
           value == IF data.t # "undefined"
                    THEN ProviderGetValue(provs[i], key, data)
                    ELSE Null
       IN  IF Truthy(value) THEN value
           ELSE ResolveValueAt(provs, key, providerData, i + 1)

ResolveValue(provs, key, providerData) ==
  ResolveValueAt(provs, key, providerData, 1)

(* ------------------------------------------------------------------ *)
(* Metadata                                                             *)
(* ------------------------------------------------------------------ *)

\* an empty Map, an empty object
EmptyMap == [k \in {} |-> <<>>]

\* f with key k bound to v when k has no binding yet
WithDefault(f, k, v) ==
  IF k \in DOMAIN f THEN f
  ELSE [x \in DOMAIN f \cup {k} |-> IF x = k THEN v ELSE f[x]]

\* new Metadata(registry): an empty Map for every registered provider
NewMetadata(provs) ==
  [n \in {provs[i].name : i \in 1..Len(provs)} |-> EmptyMap]

\* An addData that overwrites the list instead of appending to it.
AddDataOverwrite(pd, providerName, key, value) ==
  LET withMap == WithDefault(pd, providerName, EmptyMap)
      withKey == WithDefault(withMap[providerName], key, <<>>)
  IN  [withMap EXCEPT ![providerName] = [withKey EXCEPT ![key] = <<value>>]]

\* addData(providerName, key, value)
AddDataOp(pd, providerName, key, value) ==
  LET withMap == WithDefault(pd, providerName, EmptyMap)
      withKey == WithDefault(withMap[providerName], key, <<>>)
  IN  [withMap EXCEPT
         ![providerName] = [withKey EXCEPT ![key] = Append(@, value)]]

\* Metadata.resolveValue(key)
Resolve(provs, pd, key) == ResolveValue(provs, key, pd)

\* A favicon getter without the literal default.
FaviconNoDefault(provs, pd) ==
  OrElse(Resolve(provs, pd, sIcon), Resolve(provs, pd, sShortcutIcon))

\* get favicon()
Favicon(provs, pd) ==
  OrElse(OrElse(Resolve(provs, pd, sIcon), Resolve(provs, pd, sShortcutIcon)),
         sFaviconIco)

\* A title getter that asks for the heading first.
TitleHeadingFirst(provs, pd) ==
  OrElse(Resolve(provs, pd, sFirstHeading), Resolve(provs, pd, sTitle))

\* get title()
Title(provs, pd) ==
  OrElse(Resolve(provs, pd, sTitle), Resolve(provs, pd, sFirstHeading))

\* get description()
Description(provs, pd) == Resolve(provs, pd, sDescription)

\* get image()
Image(provs, pd) == Resolve(provs, pd, sImage)

\* get url()
Url(provs, pd) == Resolve(provs, pd, sUrl)

\* get siteName()
SiteName(provs, pd) ==
  OrElse(Resolve(provs, pd, sSiteName), Resolve(provs, pd, sSite))

\* A namespace getter that keeps only the latest value of each list.
NamespaceLatest(pd, name) ==
  IF name \in DOMAIN pd
  THEN [k \in DOMAIN pd[name] |->
          IF pd[name][k] = <<>> THEN <<>>
          ELSE <<pd[name][k][Len(pd[name][k])]>>]
  ELSE EmptyMap

\* the legacy getters: providerData[name] || new Map()
Namespace(pd, name) == IF name \in DOMAIN pd THEN pd[name] ELSE EmptyMap

\* get openGraph()
OpenGraph(pd) == Namespace(pd, sOpenGraph)

\* get twitterCard()
TwitterCard(pd) == Namespace(pd, sTwitter)

\* get meta()
Meta(pd) == Namespace(pd, sMeta)

\* get other()
Other(pd) == Namespace(pd, sOther)

(* ------------------------------------------------------------------ *)
(* Scraper                                                              *)
(* ------------------------------------------------------------------ *)

\* A document is [exists, querySelectorAll, querySelector, nodes]: whether
\* the argument is an object at all, whether it has each query function,
\* and its elements in document order.

\* document.querySelectorAll("meta")
QueryMetaTags(nodes) ==
  LET IsMeta(el) == TagLower(el) = sMeta
  IN  SelectSeq(nodes, IsMeta)

\* A query that returns every element of the tag.
QueryEvery(nodes, tag) ==
  LET IsTag(el) == TagLower(el) = tag
  IN  SelectSeq(nodes, IsTag)

\* document.querySelector(tag): the first such element, as a list of at
\* most one element
QueryFirst(nodes, tag) ==
  LET IsTag(el) == TagLower(el) = tag
      found == SelectSeq(nodes, IsTag)
  IN  IF found = <<>> THEN <<>> ELSE <<found[1]>>

\* document.querySelectorAll("link[rel]")
QueryLinkTags(nodes) ==
  LET IsLinkRel(el) == TagLower(el) = sLink /\ GetAttribute(el, "rel") # Null
  IN  SelectSeq(nodes, IsLinkRel)

\* document.querySelectorAll("link[rel='alternate']")
QueryFeedLinkTags(nodes) ==
  LET IsAlternate(el) ==
        TagLower(el) = sLink /\ GetAttribute(el, "rel") = sAlternate
  IN  SelectSeq(nodes, IsAlternate)

\* A scrapeFromElement that keeps only the first extraction of each provider.
ScrapeFirstPerProvider(provs, st, el) ==
  LET r    == ScrapeFromElement(provs, el)
      ex   == r.result
      keep == /\ ex # NoExtraction
              /\ \A c \in 1..Len(st.added) :
                   st.added[c].providerName # provs[ex.provider].name
  IN  [providerData |->
         IF keep
         THEN AddDataOp(st.providerData, provs[ex.provider].name,
                        ex.data.key, ex.data.value)
         ELSE st.providerData,
       added |->
         IF keep
         THEN Append(st.added,
                     [providerName |-> provs[ex.provider].name,
                      key |-> ex.data.key, value |-> ex.data.value])
         ELSE st.added,
       calls |-> st.calls \o r.calls,
       dispatched |-> Append(st.dispatched, el)]

\* Scraper.scrapeFromElement(element), on the run's state
\* st = [providerData, added, calls, dispatched]
ScraperScrapeFromElement(provs, st, el) ==
  LET r  == ScrapeFromElement(provs, el)
      ex == r.result
  IN  [providerData |->
         IF ex # NoExtraction
         THEN AddDataOp(st.providerData, provs[ex.provider].name,
                        ex.data.key, ex.data.value)
         ELSE st.providerData,
       added |->
         IF ex # NoExtraction
         THEN Append(st.added,
                     [providerName |-> provs[ex.provider].name,
                      key |-> ex.data.key, value |-> ex.data.value])
         ELSE st.added,
       calls |-> st.calls \o r.calls,
       dispatched |-> Append(st.dispatched, el)]

\* for (const tag of tags) this.scrapeFromElement(tag)
RECURSIVE ScrapeEach(_, _, _)
ScrapeEach(provs, st, tags) ==
  IF tags = <<>> THEN st
  ELSE ScrapeEach(provs, ScraperScrapeFromElement(provs, st, Head(tags)),
                  Tail(tags))

\* the elements phase k of scrape dispatches: scrapeMetaTags,
\* scrapeTitleTag, scrapeHeadingTags, scrapeLinkTags
PhaseTags(nodes, k) ==
  CASE k = 1 -> QueryMetaTags(nodes)
    [] k = 2 -> QueryFirst(nodes, sTitle)
    [] k = 3 -> QueryFirst(nodes, sH1)
    [] k = 4 -> QueryLinkTags(nodes)

\* the four phases run on st in the order given
RECURSIVE ScrapeInOrder(_, _, _, _)
ScrapeInOrder(provs, st, nodes, order) ==
  IF order = <<>> THEN st
  ELSE ScrapeInOrder(provs,
                     ScrapeEach(provs, st, PhaseTags(nodes, Head(order))),
                     nodes, Tail(order))

\* the run's state after new Metadata(registry)
FreshRun(provs) ==
  [providerData |-> NewMetadata(provs), added |-> <<>>, calls |-> <<>>,
   dispatched |-> <<>>]

\* A feed scan that records a link whether or not it has an href.
RECURSIVE FeedsOfAnyLink(_)
FeedsOfAnyLink(tags) ==
  IF tags = <<>> THEN <<>>
  ELSE LET tag == Head(tags)
       IN  <<[title |-> OrElse(GetAttribute(tag, "title"), Null),
              type  |-> OrElse(GetAttribute(tag, "type"), Empty),
              href  |-> GetAttribute(tag, "href")]>>
             \o FeedsOfAnyLink(Tail(tags))

\* the loop of scrapeFeedLinks: the feeds pushed for tags
RECURSIVE FeedsOf(_)
FeedsOf(tags) ==
  IF tags = <<>> THEN <<>>
  ELSE LET tag   == Head(tags)
           title == OrElse(GetAttribute(tag, "title"), Null)
           type  == OrElse(GetAttribute(tag, "type"), Empty)
           href  == GetAttribute(tag, "href")
       IN  (IF Truthy(href)
            THEN <<[title |-> title, type |-> type, href |-> href]>>
            ELSE <<>>)
             \o FeedsOf(Tail(tags))

\* A scrapeFeedLinks that records only the links that some provider of the
\* registry recognizes.
ScrapeFeedLinksRecognized(provs, fd, nodes) ==
  LET Recognized(el) == \E i \in 1..Len(provs) : CanHandle(provs[i], el)
  IN  fd \o FeedsOf(SelectSeq(QueryFeedLinkTags(nodes), Recognized))

\* scrapeFeedLinks() of a Scraper whose registry is provs: what
\* this.result.feeds, fd before the call, holds after it
ScraperScrapeFeedLinks(provs, fd, nodes) ==
  fd \o FeedsOf(QueryFeedLinkTags(nodes))

(* ------------------------------------------------------------------ *)
(* ProviderLoader and the factory                                       *)
(* ------------------------------------------------------------------ *)

\* A file system is a function from directory paths to directories. A
\* directory is [readable, listing, modules]: whether readdir succeeds, the
\* file names readdir returns, and the modules import() resolves, by file
\* name. A module is [throws, exports]: whether importing it fails, and its
\* exports in Object.keys order, each [name, value]. An exported value is
\* [typeof, constructs, instance]: constructs is "provider" when new
\* value() yields an object with the five MetadataProvider members,
\* "other" when it yields another object, "throws" when it fails.

EndsWith(s, suffix) ==
  Len(s) >= Len(suffix)
    /\ SubSeq(s, Len(s) - Len(suffix) + 1, Len(s)) = suffix

sDotJs  == <<".","j","s">>
sDotDTs == <<".","d",".","t","s">>

\* the ending of the providers' file names
sProviderJs == <<"-","p","r","o","v","i","d","e","r",".","j","s">>

\* join(__dirname, 'providers')
sOwnDir == <<"p","r","o","v","i","d","e","r","s">>

fOpenGraph ==
  <<"o","p","e","n","-","g","r","a","p","h">> \o sProviderJs

fTwitter ==
  <<"t","w","i","t","t","e","r">> \o sProviderJs

fStandardMeta ==
  <<"s","t","a","n","d","a","r","d","-","m","e","t","a">> \o sProviderJs

fOtherElements ==
  <<"o","t","h","e","r","-","e","l","e","m","e","n","t","s">> \o sProviderJs

\* file.endsWith('.js') && !file.endsWith('.d.ts')
IsProviderFile(file) == EndsWith(file, sDotJs) /\ ~EndsWith(file, sDotDTs)

\* isProviderClass(cls)
IsProviderClass(cls) == cls.typeof = "function" /\ cls.constructs = "provider"

\* the instances pushed for one imported module
InstancesOf(module) ==
  LET IsProvider(e) == IsProviderClass(e.value)
      classes == SelectSeq(module.exports, IsProvider)
  IN  [i \in 1..Len(classes) |-> classes[i].value.instance]

\* import(`./providers/${file}`) resolves: the module is looked up in the
\* loader's own providers directory
Importable(fs, file) ==
  /\ sOwnDir \in DOMAIN fs
  /\ file \in DOMAIN fs[sOwnDir].modules
  /\ ~fs[sOwnDir].modules[file].throws

\* the loop over providerFiles: a file whose import fails is skipped
RECURSIVE LoadFiles(_, _)
LoadFiles(fs, files) ==
  IF files = <<>> THEN <<>>
  ELSE (IF Importable(fs, Head(files))
        THEN InstancesOf(fs[sOwnDir].modules[Head(files)])
        ELSE <<>>)
         \o LoadFiles(fs, Tail(files))

\* A loop that imports each file from the directory dir it was listed in.
RECURSIVE LoadFilesOf(_, _, _)
LoadFilesOf(fs, dir, files) ==
  IF files = <<>> THEN <<>>
  ELSE (IF Head(files) \in DOMAIN fs[dir].modules
           /\ ~fs[dir].modules[Head(files)].throws
        THEN InstancesOf(fs[dir].modules[Head(files)])
        ELSE <<>>)
         \o LoadFilesOf(fs, dir, Tail(files))

\* loadFromDirectory(providersPath)
LoadFromDirectory(fs, path) ==
  LET providersDir == OrElse(path, sOwnDir)
  IN  IF providersDir \notin DOMAIN fs \/ ~fs[providersDir].readable
      THEN <<>>
      ELSE LoadFiles(fs, SelectSeq(fs[providersDir].listing, IsProviderFile))

\* const { name } = await import('./providers/<file>'); new name(): the
\* instance, or NoProvider when the import, the lookup or the constructor
\* fails
DefaultInstance(fs, file, name) ==
  IF ~Importable(fs, file) THEN NoProvider
  ELSE LET IsNamed(e) == e.name = name
           found == SelectSeq(fs[sOwnDir].modules[file].exports, IsNamed)
       IN  IF found = <<>> THEN NoProvider
           ELSE IF found[1].value.typeof # "function"
                   \/ found[1].value.constructs = "throws"
           THEN NoProvider
           ELSE found[1].value.instance

\* loadDefaults(): the four instances, or nothing when any step throws
LoadDefaults(fs) ==
  LET list == << DefaultInstance(fs, fOpenGraph, "OpenGraphProvider"),
                 DefaultInstance(fs, fTwitter, "TwitterProvider"),
                 DefaultInstance(fs, fStandardMeta, "StandardMetaProvider"),
                 DefaultInstance(fs, fOtherElements, "OtherElementsProvider") >>
  IN  IF \E i \in 1..4 : list[i] = NoProvider THEN <<>> ELSE list

\* A fallback test that always asks for the defaults.
AlwaysEmpty(list) == TRUE

\* providers.length === 0
IsEmptyList(list) == Len(list) = 0

(* ------------------------------------------------------------------ *)
(* State                                                                *)
(* ------------------------------------------------------------------ *)

VARIABLES
  providers,     \* ProviderRegistry.providers
  registered,    \* history: the providers in the order they were registered
  lastOp,        \* the operation that produced this state
  element,       \* the argument of the last registry.scrapeFromElement
  extraction,    \* what it returned
  calls,         \* the provider methods the registry called, in order
  providerData,  \* Metadata.providerData
  feeds,         \* Metadata.feeds
  added,         \* history: the addData calls, in order
  document,      \* the argument of Scraper.scrape
  pc,            \* where Scraper.scrape stands
  dispatched,    \* history: the elements Scraper handed to the registry
  results,       \* the Metadata objects earlier scrape calls returned
  provider,      \* the provider instance a caller holds
  node,          \* the element the caller hands to it
  returned,      \* what the last call of one of its methods returned
  handed,        \* the array a getProviders call handed to its caller
  fileSystem,    \* the directories the ProviderLoader can read and import
  providersPath, \* the argument of loadFromDirectory
  loaded,        \* the provider list a loader call resolved to
  loaderCalls    \* history: the loader methods called, with their results

registryVars == <<providers, registered>>
dispatchVars == <<element, extraction, calls>>
metadataVars == <<providerData, feeds, added>>
scraperVars  == <<document, pc, dispatched, results>>
providerVars == <<provider, node, returned>>
callerVars   == <<provider, node, returned, handed>>
loaderVars   == <<fileSystem, providersPath, loaded, loaderCalls>>

vars == <<providers, registered, lastOp, element, extraction, calls,
          providerData, feeds, added, document, pc, dispatched, results,
          provider, node, returned, handed,
          fileSystem, providersPath, loaded, loaderCalls>>

(* ------------------------------------------------------------------ *)
(* Inputs                                                               *)
(* ------------------------------------------------------------------ *)

sA       == <<"A">>
sB       == <<"B">>
sMock1   == <<"m","o","c","k","1">>
sMock2   == <<"m","o","c","k","2">>
sTest    == <<"t","e","s","t">>
sOgTitle == sOgPrefix \o sTitle
sTwCard  == sTwitterPrefix \o <<"c","a","r","d">>
sSummary == <<"s","u","m","m","a","r","y">>
tagMETA  == <<"M","E","T","A">>
tagDIV   == <<"D","I","V">>
tagTITLE == <<"T","I","T","L","E">>
tagH1    == <<"H","1">>
tagLINK  == <<"L","I","N","K">>

\* all sequences over S of length at most n
RECURSIVE SeqsUpTo(_, _)
SeqsUpTo(S, n) ==
  IF n = 0 THEN {<<>>}
  ELSE LET shorter == SeqsUpTo(S, n - 1)
       IN  shorter \cup {Append(q, x) : q \in shorter, x \in S}

\* the providers SpecRegistry registers: two built-in ones and mocks that
\* share a name or a priority with another provider
RegistryPool ==
  { OpenGraphProvider, TwitterProvider,
    MockProvider(sMock1, <<1, 2>>),
    MockProvider(sMock1, <<1, 1>>),
    MockProvider(sMock2, <<1, 1>>) }

\* the attributes the tests' MockProvider reads
MockAttrs(p, k, v) ==
  ("mock-provider" :> p) @@ ("mock-key" :> k) @@ ("mock-value" :> v)

\* the elements SpecRegistry dispatches
RegistryElements ==
  { Element(tagMETA, [property |-> sOgTitle, content |-> sA], Empty),
    Element(tagMETA, [property |-> sOgTitle], Empty),
    Element(tagMETA, [name |-> sTwCard, content |-> sSummary], Empty),
    Element(tagDIV, <<>>, Empty),
    Element(tagDIV, MockAttrs(sMock1, sTest, sA), Empty),
    Element(tagDIV, MockAttrs(sMock2, sTest, sB), Empty),
    Element(tagDIV, MockAttrs(sMock1, Null, Null), Empty),
    Element(tagMETA, MockAttrs(sMock1, sTest, sB) @@ [property |-> sOgTitle],
            Empty) }

(* ------------------------------------------------------------------ *)
(* SpecRegistry: a ProviderRegistry and the calls made on it            *)
(* ------------------------------------------------------------------ *)

NoElement == Element(Empty, <<>>, Null)

NoList == [changes |-> 0, held |-> FALSE, shared |-> FALSE, items |-> <<>>]

\* scrape(undefined)
NoDocument ==
  [exists |-> FALSE, querySelectorAll |-> FALSE, querySelector |-> FALSE,
   nodes |-> <<>>]

NoDispatch ==
  /\ element = NoElement
  /\ extraction = NoExtraction
  /\ calls = <<>>

NoMetadata ==
  /\ providerData = EmptyMap
  /\ feeds = <<>>
  /\ added = <<>>

NoScraper ==
  /\ document = NoDocument
  /\ pc = "idle"
  /\ dispatched = <<>>
  /\ results = <<>>

\* no directory
NoFiles == [path \in {} |-> <<>>]

\* no ProviderLoader call
NoLoader ==
  /\ fileSystem = NoFiles
  /\ providersPath = Null
  /\ loaded = <<>>
  /\ loaderCalls = <<>>

\* no caller holds a provider or a provider list
NoCaller ==
  /\ provider = NoProvider
  /\ node = NoElement
  /\ returned = Null
  /\ handed = NoList

InitRegistry ==
  /\ providers = <<>>
  /\ registered = <<>>
  /\ lastOp = "start"
  /\ NoDispatch
  /\ NoMetadata
  /\ NoScraper
  /\ NoCaller
  /\ NoLoader

\* new ProviderRegistry(list)
ConstructRegistry(list) ==
  /\ lastOp = "start"
  /\ providers' = NewProviderRegistry(list)
  /\ registered' = list
  /\ lastOp' = "constructor"
  /\ UNCHANGED <<callerVars, loaderVars, dispatchVars, metadataVars,
                 scraperVars>>

\* registry.registerProvider(p)
RegisterProvider(p) ==
  /\ lastOp # "start"
  /\ Len(registered) < MaxProviders
  /\ providers' = RegisterProviderOp(providers, p)
  /\ registered' = Append(registered, p)
  /\ lastOp' = "registerProvider"
  /\ UNCHANGED <<providerVars, loaderVars, dispatchVars, metadataVars,
                 scraperVars>>
  /\ handed' = IF handed.shared
               THEN [handed EXCEPT !.items = providers']
               ELSE handed

\* registry.scrapeFromElement(el)
DispatchElement(el) ==
  /\ lastOp # "start"
  /\ LET r == ScrapeFromElement(providers, el)
     IN  /\ extraction' = r.result
         /\ calls' = r.calls
  /\ element' = el
  /\ lastOp' = "scrapeFromElement"
  /\ UNCHANGED <<callerVars, loaderVars, registryVars, metadataVars,
                 scraperVars>>

NextRegistry ==
  \/ \E list \in SeqsUpTo(RegistryPool, MaxProviders - 1) :
       ConstructRegistry(list)
  \/ \E p \in RegistryPool : RegisterProvider(p)
  \/ \E el \in RegistryElements : DispatchElement(el)

SpecRegistry == InitRegistry /\ [][NextRegistry]_vars

\* the entries of list whose priority equals that of x, in list order
SamePriority(list, x) ==
  LET Same(y) == ComparePriority(y, x) = 0
  IN  SelectSeq(list, Same)

\* C2: after any sequence of registrations (the constructor's list
\* included) getProviders returns one entry per registration, sorted
\* ascending by priority, and the providers of one priority appear in the
\* order they were registered.
C2_SortedStable ==
  LET listed == GetProviders(providers)
  IN  /\ Len(listed) = Len(registered)
      /\ \A i, j \in 1..Len(listed) :
           i < j => ComparePriority(listed[i], listed[j]) <= 0
      /\ \A k \in 1..Len(registered) :
           SamePriority(listed, registered[k])
             = SamePriority(registered, registered[k])

\* three registrations, two of them of one priority and registered after a
\* provider of a higher priority number
C2_Witness ==
  /\ Len(registered) = 3
  /\ registered[1] = TwitterProvider
  /\ registered[2] = MockProvider(sMock2, <<1, 1>>)
  /\ registered[3] = OpenGraphProvider
  /\ lastOp = "registerProvider"

\* the providers, by index, that recognize el and extract from it
Extracting(provs, el) ==
  {i \in 1..Len(provs) : CanHandle(provs[i], el) /\ Scrape(provs[i], el) # NoData}

\* C3: scrapeFromElement returns the first provider in priority order that
\* both recognizes the node and extracts from it, with what it extracted; a
\* provider that recognizes but extracts nothing does not stop the scan; the
\* result is null exactly when no provider recognizes and extracts.
C3_FirstExtracting ==
  lastOp = "scrapeFromElement" =>
    LET good == Extracting(providers, element)
    IN  IF good = {}
        THEN extraction = NoExtraction
        ELSE /\ extraction # NoExtraction
             /\ extraction.provider \in good
             /\ \A j \in good :
                  /\ extraction.provider <= j
                  /\ ComparePriority(providers[extraction.provider],
                                     providers[j]) <= 0
             /\ extraction.data
                  = Scrape(providers[extraction.provider], element)

\* a provider recognized the node and extracted nothing, and a provider
\* after it was returned
C3_Witness ==
  /\ lastOp = "scrapeFromElement"
  /\ extraction # NoExtraction
  /\ \E i \in 1..Len(providers) :
       /\ i < extraction.provider
       /\ CanHandle(providers[i], element)
       /\ Scrape(providers[i], element) = NoData

\* C4: scrapeFromElement never returns a provider that does not recognize
\* the node and never calls scrape on a provider whose canHandle is false.
C4_OnlyRecognizers ==
  lastOp = "scrapeFromElement" =>
    /\ extraction # NoExtraction =>
         CanHandle(providers[extraction.provider], element)
    /\ \A n \in 1..Len(calls) :
         calls[n][1] = "scrape" => CanHandle(providers[calls[n][2]], element)

\* a provider that does not recognize the node, and would extract from it,
\* was skipped and a later provider returned
C4_Witness ==
  /\ lastOp = "scrapeFromElement"
  /\ extraction # NoExtraction
  /\ \E i \in 1..Len(providers) :
       /\ i < extraction.provider
       /\ ~CanHandle(providers[i], element)
       /\ MockScrape(element) # NoData
       /\ providers[i].kind = "mock"

(* ------------------------------------------------------------------ *)
(* SpecGetProviders: a registry and a caller that changes the arrays   *)
(* getProviders returns                                                 *)
(* ------------------------------------------------------------------ *)

\* const list = registry.getProviders()
CallGetProviders ==
  /\ lastOp # "start"
  /\ handed' = [changes |-> 0] @@ GetProvidersOp(providers)
  /\ lastOp' = "getProviders"
  /\ UNCHANGED <<providerVars, loaderVars, registryVars, dispatchVars,
                 metadataVars, scraperVars>>

\* the caller changes the array it holds to items; the registry's array
\* changes with it when it is the same object
HandedBecomes(items) ==
  /\ handed.held
  /\ handed.changes < MaxMutations
  /\ handed' = [handed EXCEPT !.items = items, !.changes = @ + 1]
  /\ providers' = IF handed.shared THEN items ELSE providers
  /\ UNCHANGED <<providerVars, loaderVars, registered, dispatchVars,
                 metadataVars, scraperVars>>

\* list.push(p)
HandedPush(p) ==
  /\ HandedBecomes(Append(handed.items, p))
  /\ lastOp' = "push"

\* list.pop()
HandedPop ==
  /\ handed.items # <<>>
  /\ HandedBecomes(SubSeq(handed.items, 1, Len(handed.items) - 1))
  /\ lastOp' = "pop"

\* list.reverse()
HandedReverse ==
  /\ HandedBecomes(Reverse(handed.items))
  /\ lastOp' = "reverse"

\* the registries a caller starts from; registering the providers of a
\* registry in its own order yields that registry
InitGetProviders ==
  /\ providers
       \in {NewProviderRegistry(list) : list \in SeqsUpTo(RegistryPool, 2)}
  /\ registered = providers
  /\ lastOp = "constructor"
  /\ NoDispatch
  /\ NoMetadata
  /\ NoScraper
  /\ NoCaller
  /\ NoLoader

NextGetProviders ==
  \/ CallGetProviders
  \/ HandedPush(MockProvider(sMock1, <<1, 2>>))
  \/ HandedPop
  \/ HandedReverse
  \/ \E p \in {OpenGraphProvider} : RegisterProvider(p)
  \/ \E el \in {Element(tagMETA, [property |-> sOgTitle, content |-> sA],
                          Empty)} :
       DispatchElement(el)

SpecGetProviders == InitGetProviders /\ [][NextGetProviders]_vars

\* each provider of the pool holding its own name under the key "test"
OwnNames ==
  [n \in {p.name : p \in RegistryPool} |-> (sTest :> <<n>>)]

\* what the registry answers: its order, every dispatch, a resolution
Answers(provs) ==
  [getProviders |-> GetProviders(provs),
   scrapeFromElement |->
     [el \in RegistryElements |-> ScrapeFromElement(provs, el).result],
   resolveValue |-> ResolveValue(provs, sTest, OwnNames)]

\* a caller's change of the array it holds leaves the registry's answers as
\* they were
C17_MutationLeavesRegistry ==
  lastOp' \in {"push", "pop", "reverse"} /\ handed' # handed =>
    /\ providers' = providers
    /\ Answers(providers') = Answers(providers)

\* C17: getProviders returns an independent copy: adding to, removing from
\* or reordering a returned list leaves the registry's order and the
\* results of later getProviders, scrapeFromElement and resolveValue calls
\* unchanged, so the registry's order stays the one its registrations give.
C17_IndependentCopy ==
  /\ [][C17_MutationLeavesRegistry]_vars
  /\ [](providers = NewProviderRegistry(registered))

\* the caller reversed and extended a copy of two providers, and the
\* registry still answers in priority order
C17_Witness ==
  /\ lastOp = "push"
  /\ Len(providers) = 2
  /\ ComparePriority(providers[1], providers[2]) < 0
  /\ handed.items
       = <<providers[2], providers[1], MockProvider(sMock1, <<1, 2>>)>>
  /\ GetProviders(providers) = providers

(* ------------------------------------------------------------------ *)
(* SpecMetadata: a Metadata over a registry, and the calls made on it   *)
(* ------------------------------------------------------------------ *)

\* the providers of SpecMetadata's registries: a mock carries the name of a
\* built-in provider with a priority before every built-in one
MetadataPool ==
  { OpenGraphProvider, OtherElementsProvider,
    MockProvider(sOther, <<1, 2>>) }

MetadataRegistries ==
  {NewProviderRegistry(list) : list \in SeqsUpTo(MetadataPool, 2)}

MetadataNames == {sOpenGraph, sOther}

MetadataKeys == {sTitle, sFirstHeading, sIcon, sShortcutIcon}

MetadataValues == {Empty, sA, sB}

sFeedXml == <<"/","f">>

sRss == <<"r","s","s">>

\* registering the providers of a registry in its own order yields that
\* registry, so providers is one registration history of itself
InitMetadata ==
  /\ providers \in MetadataRegistries
  /\ registered = providers
  /\ lastOp = "constructor"
  /\ providerData = NewMetadata(providers)
  /\ feeds = <<>>
  /\ added = <<>>
  /\ NoDispatch
  /\ NoScraper
  /\ NoCaller
  /\ NoLoader

\* metadata.addData(providerName, key, value)
AddData(providerName, key, value) ==
  /\ Len(added) < MaxAdds
  /\ providerData' = AddDataOp(providerData, providerName, key, value)
  /\ added' = Append(added,
                     [providerName |-> providerName, key |-> key,
                      value |-> value])
  /\ lastOp' = "addData"
  /\ UNCHANGED <<callerVars, loaderVars, registryVars, dispatchVars,
                 scraperVars, feeds>>

\* metadata.feeds.push(feed)
PushFeed(feed) ==
  /\ Len(feeds) < MaxFeeds
  /\ feeds' = Append(feeds, feed)
  /\ lastOp' = "feeds.push"
  /\ UNCHANGED <<callerVars, loaderVars, registryVars, dispatchVars,
                 scraperVars, providerData, added>>

NextMetadata ==
  \/ \E n \in MetadataNames, k \in MetadataKeys, v \in MetadataValues :
       AddData(n, k, v)
  \/ PushFeed([title |-> Null, type |-> sRss, href |-> sFeedXml])

SpecMetadata == InitMetadata /\ [][NextMetadata]_vars

\* the list stored for (providerName, key), empty when there is none
StoredList(pd, providerName, key) ==
  IF providerName \in DOMAIN pd /\ key \in DOMAIN pd[providerName]
  THEN pd[providerName][key]
  ELSE <<>>

\* the values the calls of log passed for (providerName, key), in call order
RECURSIVE PassedValues(_, _, _)
PassedValues(log, providerName, key) ==
  IF log = <<>> THEN <<>>
  ELSE LET rest == PassedValues(SubSeq(log, 1, Len(log) - 1), providerName, key)
           call == log[Len(log)]
       IN  IF call.providerName = providerName /\ call.key = key
           THEN Append(rest, call.value)
           ELSE rest

\* the providers, by index, that hold a non-empty list for key
HasValue(provs, pd, key) ==
  {i \in 1..Len(provs) : Len(StoredList(pd, provs[i].name, key)) > 0}

\* the providers, by index, whose list for key starts with a non-empty string
HasTruthyValue(provs, pd, key) ==
  {i \in HasValue(provs, pd, key) :
     StoredList(pd, provs[i].name, key)[1] # Empty}

\* v is the first value for key of a provider of lowest priority number
\* among those of the set has
FirstOfLowest(provs, pd, key, has, v) ==
  \E i \in has :
    /\ \A j \in has : ComparePriority(provs[i], provs[j]) <= 0
    /\ v = StoredList(pd, provs[i].name, key)[1]

\* C1 as stated: resolveValue returns the first list element of the
\* lowest-priority-number provider that has a non-empty list for the field,
\* whatever strings the list holds, and none only if no provider has one.
C1_AnyValueResolves ==
  \A key \in MetadataKeys :
    LET has == HasValue(providers, providerData, key)
        v   == ResolveValue(providers, key, providerData)
    IN  IF has = {} THEN v = Null
        ELSE FirstOfLowest(providers, providerData, key, has, v)

\* C1 as amended: resolveValue returns the first list element of the
\* lowest-priority-number provider whose list for the field starts with a
\* non-empty string, and none exactly when no registered provider has such
\* a list.
C1_NonEmptyValueResolves ==
  \A key \in MetadataKeys :
    LET has == HasTruthyValue(providers, providerData, key)
        v   == ResolveValue(providers, key, providerData)
    IN  IF has = {} THEN v = Null
        ELSE /\ FirstOfLowest(providers, providerData, key, has, v)
             /\ v # Null /\ v # Empty

\* the provider tried first holds an empty string for the title and a
\* later provider's value is returned
C1_Witness ==
  /\ Len(providers) = 2
  /\ providers[1].name # providers[2].name
  /\ StoredList(providerData, providers[1].name, sTitle) = <<Empty>>
  /\ StoredList(providerData, providers[2].name, sTitle) = <<sB>>
  /\ ResolveValue(providers, sTitle, providerData) = sB

\* every stored list is the sequence of values passed for its pair
C5_ListsAreHistories ==
  /\ \A n \in MetadataNames, k \in MetadataKeys :
       /\ StoredList(providerData, n, k) = PassedValues(added, n, k)
       /\ Len(StoredList(providerData, n, k))
            = Cardinality({c \in 1..Len(added) :
                             added[c].providerName = n /\ added[c].key = k})
  /\ \A n \in DOMAIN providerData :
       /\ n \in MetadataNames \cup {providers[i].name : i \in 1..Len(providers)}
       /\ DOMAIN providerData[n] \subseteq MetadataKeys

\* one addData(p, k, v) appends v to the list of (p, k) and changes nothing
\* else
C5_AppendsToOneList ==
  Len(added') = Len(added) + 1 =>
    LET call == added'[Len(added')]
    IN  /\ \A n \in MetadataNames, k \in MetadataKeys :
             StoredList(providerData', n, k)
               = IF n = call.providerName /\ k = call.key
                 THEN Append(StoredList(providerData, n, k), call.value)
                 ELSE StoredList(providerData, n, k)
        /\ feeds' = feeds

C6_TitleBeforeHeading ==
  LET t      == Title(providers, providerData)
      titles == HasTruthyValue(providers, providerData, sTitle)
      heads  == HasTruthyValue(providers, providerData, sFirstHeading)
  IN  /\ t = IF ResolveValue(providers, sTitle, providerData) # Null
             THEN ResolveValue(providers, sTitle, providerData)
             ELSE ResolveValue(providers, sFirstHeading, providerData)
      /\ titles # {} =>
           FirstOfLowest(providers, providerData, sTitle, titles, t)
      /\ titles = {} /\ heads # {} =>
           FirstOfLowest(providers, providerData, sFirstHeading, heads, t)
      /\ titles = {} /\ heads = {} => t = Null

\* the provider tried last holds a title, the provider tried first holds a
\* firstHeading and no title, and the title is returned
C6_Witness ==
  /\ Len(providers) = 2
  /\ providers[1].name # providers[2].name
  /\ StoredList(providerData, providers[1].name, sFirstHeading) = <<sA>>
  /\ StoredList(providerData, providers[1].name, sTitle) = <<>>
  /\ StoredList(providerData, providers[2].name, sTitle) = <<sB>>
  /\ Title(providers, providerData) = sB

\* no addData call used the key
NeverAdded(key) == \A c \in 1..Len(added) : added[c].key # key

\* C7: favicon is never absent: the resolved "icon" if any provider has
\* one, else the resolved "shortcut icon" if any provider has one, else
\* "/favicon.ico"; it is "/favicon.ico" whenever no addData call used the
\* key "icon" or "shortcut icon".
C7_FaviconDefault ==
  LET f     == Favicon(providers, providerData)
      icons == HasTruthyValue(providers, providerData, sIcon)
      short == HasTruthyValue(providers, providerData, sShortcutIcon)
  IN  /\ f # Null /\ f # Empty
      /\ icons # {} => FirstOfLowest(providers, providerData, sIcon, icons, f)
      /\ icons = {} /\ short # {} =>
           FirstOfLowest(providers, providerData, sShortcutIcon, short, f)
      /\ icons = {} /\ short = {} => f = sFaviconIco
      /\ NeverAdded(sIcon) /\ NeverAdded(sShortcutIcon) => f = sFaviconIco

\* data was added, none of it under "icon" or "shortcut icon", to a
\* registered provider, and the favicon is the default
C7_Witness ==
  /\ Len(added) = 2
  /\ NeverAdded(sIcon) /\ NeverAdded(sShortcutIcon)
  /\ HasTruthyValue(providers, providerData, sTitle) # {}
  /\ Favicon(providers, providerData) = sFaviconIco

\* the field-to-list mapping the addData calls of log built under name
Accumulated(log, name) ==
  [k \in {log[c].key : c \in {c \in 1..Len(log) : log[c].providerName = name}}
     |-> PassedValues(log, name, k)]

DefaultRegistry ==
  NewProviderRegistry(<<OpenGraphProvider, TwitterProvider,
                        StandardMetaProvider, OtherElementsProvider>>)

ScraperRegistries == {DefaultRegistry, <<>>}

sXxTitle  == <<"x","x",":">> \o sTitle
sOgX      == sOgPrefix \o <<"x">>
sTwTitle  == sTwitterPrefix \o sTitle
sIconHref == <<"/","i">>
sFeedName == <<"F">>

ScraperNodes ==
  { Element(tagMETA, [property |-> sOgTitle, content |-> sA], Empty),
    Element(tagMETA, [property |-> sOgTitle, content |-> sB], Empty),
    Element(tagMETA, [property |-> sOgTitle, content |-> Empty], Empty),
    Element(tagMETA, [property |-> sXxTitle, name |-> sOgX, content |-> sB],
            Empty),
    Element(tagMETA, [name |-> sTwTitle, content |-> sB], Empty),
    Element(tagMETA, [name |-> sTitle, content |-> sB], Empty),
    Element(tagTITLE, <<>>, sB),
    Element(tagH1, <<>>, sB),
    Element(tagLINK, [rel |-> sIcon, href |-> sIconHref], Empty),
    Element(tagLINK, [rel |-> sIcon, href |-> sIconHref,
                      property |-> sOgTitle, content |-> sB], Empty),
    Element(tagLINK, [rel |-> sAlternate, href |-> sFeedXml, type |-> sRss,
                      title |-> sFeedName], Empty),
    Element(tagLINK, [rel |-> sAlternate, type |-> sRss, title |-> sFeedName],
            Empty),
    Element(tagLINK, [rel |-> sAlternate, href |-> Empty, type |-> sRss],
            Empty),
    Element(tagLINK, [rel |-> sAlternate, href |-> sIconHref, title |-> Empty],
            Empty) }

\* what scrape may be handed: a document, an object with only one of the
\* two query functions, an object with neither, nothing
Documents ==
  {[exists |-> TRUE, querySelectorAll |-> TRUE, querySelector |-> qs,
    nodes |-> nodes] :
     qs \in BOOLEAN, nodes \in SeqsUpTo(ScraperNodes, MaxNodes)}
  \cup {[exists |-> TRUE, querySelectorAll |-> FALSE, querySelector |-> qs,
         nodes |-> <<>>] : qs \in BOOLEAN}
  \cup {NoDocument}

InitScraper ==
  /\ providers \in ScraperRegistries
  /\ registered = providers
  /\ lastOp = "constructor"
  /\ document \in Documents
  /\ pc = "start"
  /\ dispatched = <<>>
  /\ results = <<>>
  /\ NoDispatch
  /\ NoMetadata
  /\ NoCaller
  /\ NoLoader

\* What an earlier scrape call came to is [resolved, alias, providerData,
\* feeds, document]: whether it returned a Metadata, whether that object is
\* the very object this.result refers to, what it holds, and the document
\* of the call.
\* A new Metadata that is the earlier object, emptied.
ReusedResult(held) == held

\* this.result = new Metadata(this.registry): this.result refers to a new
\* object, and to none of those returned before
NewResult(held) == [i \in DOMAIN held |-> [held[i] EXCEPT !.alias = FALSE]]

\* a write to this.result, seen through every reference to that object
WriteThrough(held, pd, fd) ==
  [i \in DOMAIN held |->
     IF held[i].alias
     THEN [held[i] EXCEPT !.providerData = pd, !.feeds = fd]
     ELSE held[i]]

\* the run's state, and its update
RunState ==
  [providerData |-> providerData, added |-> added, calls |-> calls,
   dispatched |-> dispatched]

RunBecomes(st) ==
  /\ providerData' = st.providerData
  /\ added' = st.added
  /\ calls' = st.calls
  /\ dispatched' = st.dispatched

\* scrape(document), up to the first phase: the guard and new Metadata
ScrapeBegin ==
  /\ pc = "start"
  /\ IF ~document.exists \/ ~document.querySelectorAll
     THEN /\ pc' = "TypeError"
          /\ UNCHANGED <<providerData, feeds>>
     ELSE /\ pc' = "scrapeMetaTags"
          /\ providerData' = NewMetadata(providers)
          /\ feeds' = <<>>
  /\ UNCHANGED <<callerVars, loaderVars, registryVars, lastOp, element,
                 extraction, calls, added, document, dispatched>>
  /\ results' = IF pc' = "TypeError" THEN results
                ELSE WriteThrough(NewResult(results), providerData', feeds')

ScrapeMetaTags ==
  /\ pc = "scrapeMetaTags"
  /\ RunBecomes(ScrapeEach(providers, RunState, QueryMetaTags(document.nodes)))
  /\ pc' = "scrapeTitleTag"
  /\ UNCHANGED <<callerVars, loaderVars, registryVars, lastOp, element,
                 extraction, feeds, document>>
  /\ results' = WriteThrough(results, providerData', feeds')

\* calling this.document.querySelector when the argument has none throws
ScrapeTitleTag ==
  /\ pc = "scrapeTitleTag"
  /\ IF ~document.querySelector
     THEN /\ pc' = "TypeError"
          /\ UNCHANGED <<providerData, added, calls, dispatched>>
     ELSE /\ RunBecomes(ScrapeEach(providers, RunState,
                                   QueryFirst(document.nodes, sTitle)))
          /\ pc' = "scrapeHeadingTags"
  /\ UNCHANGED <<callerVars, loaderVars, registryVars, lastOp, element,
                 extraction, feeds, document>>
  /\ results' = WriteThrough(results, providerData', feeds')

ScrapeHeadingTags ==
  /\ pc = "scrapeHeadingTags"
  /\ IF ~document.querySelector
     THEN /\ pc' = "TypeError"
          /\ UNCHANGED <<providerData, added, calls, dispatched>>
     ELSE /\ RunBecomes(ScrapeEach(providers, RunState,
                                   QueryFirst(document.nodes, sH1)))
          /\ pc' = "scrapeLinkTags"
  /\ UNCHANGED <<callerVars, loaderVars, registryVars, lastOp, element,
                 extraction, feeds, document>>
  /\ results' = WriteThrough(results, providerData', feeds')

ScrapeLinkTags ==
  /\ pc = "scrapeLinkTags"
  /\ RunBecomes(ScrapeEach(providers, RunState, QueryLinkTags(document.nodes)))
  /\ pc' = "scrapeFeedLinks"
  /\ UNCHANGED <<callerVars, loaderVars, registryVars, lastOp, element,
                 extraction, feeds, document>>
  /\ results' = WriteThrough(results, providerData', feeds')

\* scrapeFeedLinks, then getResult: the promise resolves
ScrapeFeedLinks ==
  /\ pc = "scrapeFeedLinks"
  /\ feeds' = ScraperScrapeFeedLinks(providers, feeds, document.nodes)
  /\ pc' = "done"
  /\ UNCHANGED <<callerVars, loaderVars, registryVars, lastOp, dispatchVars,
                 providerData, added, document, dispatched>>
  /\ results' = WriteThrough(results, providerData', feeds')

NextScraper ==
  \/ ScrapeBegin
  \/ ScrapeMetaTags
  \/ ScrapeTitleTag
  \/ ScrapeHeadingTags
  \/ ScrapeLinkTags
  \/ ScrapeFeedLinks

SpecScraper == InitScraper /\ [][NextScraper]_vars

\* the meta elements of nodes, by index, that carry an og:-prefixed property
\* or name attribute
OgMetas(nodes) ==
  {i \in 1..Len(nodes) :
     /\ TagLower(nodes[i]) = sMeta
     /\ \/ OptStartsWith(GetAttribute(nodes[i], "property"), sOgPrefix)
        \/ OptStartsWith(GetAttribute(nodes[i], "name"), sOgPrefix)}

FirstOf(indices) == CHOOSE i \in indices : \A j \in indices : i <= j

\* the first og:-carrying meta element is property="og:title" with
\* non-empty content
FirstOgIsTitle(nodes) ==
  /\ OgMetas(nodes) # {}
  /\ LET el == nodes[FirstOf(OgMetas(nodes))]
     IN  /\ GetAttribute(el, "property") = sOgTitle
         /\ GetAttribute(el, "content") # Null
         /\ GetAttribute(el, "content") # Empty

\* C8: with the default providers, when the first meta element carrying an
\* og:-prefixed property or name is property="og:title" with non-empty
\* content C, title is C after scrape, whatever title, h1, twitter:title or
\* name="title" elements the document holds and wherever they stand.
C8_OgTitleWins ==
  pc = "done" /\ providers = DefaultRegistry /\ FirstOgIsTitle(document.nodes)
    => Title(providers, providerData)
         = GetAttribute(document.nodes[FirstOf(OgMetas(document.nodes))],
                        "content")

\* a title element stands before the og:title meta and the og:title wins
C8_Witness ==
  /\ pc = "done"
  /\ providers = DefaultRegistry
  /\ Len(document.nodes) = 2
  /\ TagLower(document.nodes[1]) = sTitle
  /\ FirstOgIsTitle(document.nodes)
  /\ Title(providers, providerData) = sA
  /\ StoredList(providerData, sOther, sTitle) = <<sB>>

\* the link elements with rel exactly "alternate"
IsFeedLink(el) == TagLower(el) = sLink /\ GetAttribute(el, "rel") = sAlternate

\* the feed records the claim as stated expects: one per feed link that has
\* an href attribute, with the title attribute as it is
RECURSIVE FeedsAsStated(_)
FeedsAsStated(nodes) ==
  IF nodes = <<>> THEN <<>>
  ELSE LET el == Head(nodes)
       IN  (IF IsFeedLink(el) /\ GetAttribute(el, "href") # Null
            THEN <<[title |-> GetAttribute(el, "title"),
                    type  |-> IF GetAttribute(el, "type") = Null THEN Empty
                              ELSE GetAttribute(el, "type"),
                    href  |-> GetAttribute(el, "href")]>>
            ELSE <<>>)
             \o FeedsAsStated(Tail(nodes))

\* the feed records of the amended claim: one per feed link with a non-empty
\* href, an empty title attribute recorded as absent
RECURSIVE FeedsAsAmended(_)
FeedsAsAmended(nodes) ==
  IF nodes = <<>> THEN <<>>
  ELSE LET el == Head(nodes)
       IN  (IF /\ IsFeedLink(el)
               /\ GetAttribute(el, "href") # Null
               /\ GetAttribute(el, "href") # Empty
            THEN <<[title |-> IF GetAttribute(el, "title") = Empty THEN Null
                              ELSE GetAttribute(el, "title"),
                    type  |-> IF GetAttribute(el, "type") = Null THEN Empty
                              ELSE GetAttribute(el, "type"),
                    href  |-> GetAttribute(el, "href")]>>
            ELSE <<>>)
             \o FeedsAsAmended(Tail(nodes))

\* C9 as stated: after scrape, feeds holds one record per link with rel
\* "alternate" that has an href, in document order, with the link's href,
\* its type or "" and its title attribute or none when it has no title.
C9_FeedPerLinkWithHref ==
  pc = "done" => feeds = FeedsAsStated(document.nodes)

\* C9 as amended: after scrape, feeds holds one record per link with rel
\* "alternate" whose href is present and not empty, in document order, and
\* none for a link whose href is missing or empty; the record has the
\* link's href, its type or "" when absent, and its title, absent when the
\* link has no title attribute or an empty one.
C9_FeedPerLinkWithNonEmptyHref ==
  pc = "done" => feeds = FeedsAsAmended(document.nodes)

\* a feed link without href stands before a feed link with one, and the one
\* record is the second link's
C9_Witness ==
  /\ pc = "done"
  /\ Len(document.nodes) = 2
  /\ IsFeedLink(document.nodes[1])
  /\ GetAttribute(document.nodes[1], "href") = Null
  /\ IsFeedLink(document.nodes[2])
  /\ feeds = <<[title |-> sFeedName, type |-> sRss, href |-> sFeedXml]>>

\* the argument is absent or lacks one of the two query functions
NotQueryable(doc) ==
  ~doc.exists \/ ~doc.querySelectorAll \/ ~doc.querySelector

\* C10: when the input is not a queryable document, scrape does not
\* complete, and when its type error is raised no provider's canHandle or
\* scrape has been called and no element has been dispatched.
C10_FailsBeforeAnyPhase ==
  NotQueryable(document) =>
    /\ pc # "done"
    /\ pc = "TypeError" => dispatched = <<>> /\ calls = <<>>

(* ------------------------------------------------------------------ *)
(* SpecProviders: one provider instance and the calls made on it        *)
(* ------------------------------------------------------------------ *)

sBlank  == <<" ">>
sPadded == <<" ", "B", "\t">>

ProviderPool ==
  { OpenGraphProvider, TwitterProvider, StandardMetaProvider,
    OtherElementsProvider }

ProviderTags == {tagMETA, tagTITLE, tagH1, tagLINK, tagDIV}

PropertyValues == {Null, Empty, sOgTitle, sTwCard, sXxTitle}

NameValues == {Null, Empty, sOgX, sTwTitle, sTitle}

ContentValues == {Null, Empty, sA}

RelValues == {Null, Empty, sIcon, sShortcutIcon, sAlternate}

HrefValues == {Null, Empty, sIconHref}

TextValues == {Null, Empty, sBlank, sPadded}

\* the elements a provider is handed: every combination of the attributes
\* and the text the four providers read
ProviderElements ==
  { Element(tag,
            [property |-> pr, name |-> nm, content |-> ct, rel |-> rl,
             href |-> hr],
            tx) :
      tag \in ProviderTags, pr \in PropertyValues, nm \in NameValues,
      ct \in ContentValues, rl \in RelValues, hr \in HrefValues,
      tx \in TextValues }

InitProviders ==
  /\ provider \in ProviderPool
  /\ node \in ProviderElements
  /\ returned = Null
  /\ handed = NoList
  /\ lastOp = "constructor"
  /\ providers = <<>>
  /\ registered = <<>>
  /\ NoDispatch
  /\ NoMetadata
  /\ NoScraper
  /\ NoLoader

\* provider.canHandle(node)
ProviderCanHandle ==
  /\ returned' = CanHandle(provider, node)
  /\ lastOp' = "canHandle"
  /\ UNCHANGED <<provider, node, handed, loaderVars, registryVars,
                 dispatchVars, metadataVars, scraperVars>>

\* provider.scrape(node)
ProviderScrape ==
  /\ returned' = Scrape(provider, node)
  /\ lastOp' = "scrape"
  /\ UNCHANGED <<provider, node, handed, loaderVars, registryVars,
                 dispatchVars, metadataVars, scraperVars>>

NextProviders ==
  \/ ProviderCanHandle
  \/ ProviderScrape

SpecProviders == InitProviders /\ [][NextProviders]_vars

\* the prefix an OpenGraph or Twitter provider strips
PrefixOf(p) == IF p = OpenGraphProvider THEN sOgPrefix ELSE sTwitterPrefix

\* C11: whenever OpenGraphProvider or TwitterProvider extracts (key, value)
\* from a node, the provider's prefix followed by key is the value of the
\* node's property or name attribute, and value is the node's content
\* attribute, for every combination of property and name.
C11_KeyIsPrefixedAttribute ==
  lastOp = "scrape" /\ provider \in {OpenGraphProvider, TwitterProvider} =>
    (returned # NoData =>
       /\ \E a \in {"property", "name"} :
            GetAttribute(node, a) = PrefixOf(provider) \o returned.key
       /\ returned.value = GetAttribute(node, "content"))

\* C12: OpenGraphProvider, TwitterProvider and StandardMetaProvider
\* recognize only meta elements: on a node whose tag name is not meta
\* canHandle returns false and scrape returns nothing, whatever attributes
\* the node carries.
C12_OnlyMetaElements ==
  /\ provider \in {OpenGraphProvider, TwitterProvider, StandardMetaProvider}
  /\ TagLower(node) # sMeta
  => /\ lastOp = "canHandle" => returned = FALSE
     /\ lastOp = "scrape" => returned = NoData

\* neither the name nor the property attribute of el starts with og: or
\* twitter:
NoSocialPrefix(el) ==
  \A a \in {"name", "property"} :
    GetAttribute(el, a) # Null =>
      /\ ~StartsWith(GetAttribute(el, a), sOgPrefix)
      /\ ~StartsWith(GetAttribute(el, a), sTwitterPrefix)

Present(v) == v # Null

NonEmpty(v) == v # Null /\ v # Empty

\* C13 as stated: StandardMetaProvider extracts exactly when the node has
\* non-empty content, has a name or property attribute, and neither starts
\* with og: or twitter:; the key is the name attribute whenever it is
\* present, else the property attribute; the value is the content.
C13_NamePresentWins ==
  lastOp = "scrape" /\ provider = StandardMetaProvider =>
    LET name     == GetAttribute(node, "name")
        property == GetAttribute(node, "property")
        content  == GetAttribute(node, "content")
    IN  IF /\ NonEmpty(content)
           /\ (Present(name) \/ Present(property))
           /\ NoSocialPrefix(node)
        THEN returned
               = KeyValue(IF Present(name) THEN name ELSE property, content)
        ELSE returned = NoData

\* C13 as amended: StandardMetaProvider extracts exactly when the node has
\* non-empty content, has a non-empty name or property attribute, and
\* neither attribute starts with og: or twitter:; the key is the name
\* attribute whenever it is non-empty, else the property attribute; the
\* value is the content; in every other case scrape returns nothing.
C13_NonEmptyNameWins ==
  lastOp = "scrape" /\ provider = StandardMetaProvider =>
    LET name     == GetAttribute(node, "name")
        property == GetAttribute(node, "property")
        content  == GetAttribute(node, "content")
    IN  IF /\ NonEmpty(content)
           /\ (NonEmpty(name) \/ NonEmpty(property))
           /\ NoSocialPrefix(node)
        THEN returned
               = KeyValue(IF NonEmpty(name) THEN name ELSE property, content)
        ELSE returned = NoData

\* name and property are both non-empty and differ, and the key is the name
C13_Witness ==
  /\ lastOp = "scrape"
  /\ provider = StandardMetaProvider
  /\ GetAttribute(node, "name") = sTitle
  /\ GetAttribute(node, "property") = sXxTitle
  /\ returned = KeyValue(sTitle, sA)

\* v is text without its leading and trailing white space
IsTrimOf(v, text) ==
  /\ \E i, j \in 0..Len(text) :
       /\ i + Len(v) + j = Len(text)
       /\ \A k \in 1..i : text[k] \in WhiteSpace
       /\ \A k \in 1..j : text[Len(text) + 1 - k] \in WhiteSpace
       /\ \A k \in 1..Len(v) : v[k] = text[i + k]
  /\ v # Empty => v[1] \notin WhiteSpace /\ v[Len(v)] \notin WhiteSpace

C15_IconLinks ==
  provider = OtherElementsProvider /\ TagLower(node) = sLink =>
    LET rel  == GetAttribute(node, "rel")
        href == GetAttribute(node, "href")
    IN  /\ lastOp = "canHandle" => returned = NonEmpty(rel)
        /\ lastOp = "scrape" =>
             returned
               = IF rel = sIcon /\ NonEmpty(href)
                 THEN KeyValue(sIcon, href)
                 ELSE IF rel = sShortcutIcon /\ NonEmpty(href)
                 THEN KeyValue(sShortcutIcon, href)
                 ELSE NoData

\* a link with rel "alternate" and an href is recognized and yields nothing
C15_Witness ==
  /\ lastOp = "scrape"
  /\ provider = OtherElementsProvider
  /\ TagLower(node) = sLink
  /\ GetAttribute(node, "rel") = sAlternate
  /\ GetAttribute(node, "href") = sIconHref
  /\ CanHandle(provider, node)
  /\ returned = NoData

(* ------------------------------------------------------------------ *)
(* SpecLoader: createScraper(), and a caller's own loadFromDirectory    *)
(* followed by new ProviderRegistry                                     *)
(* ------------------------------------------------------------------ *)

sCustomDir  == <<".","/","c","u","s","t","o","m","-","p","r","o","v","i","d","e","r","s">>
sMissingDir == <<"/","n","o","n","e","x","i","s","t","e","n","t","/","p","a","t","h">>
sMock       == <<"m","o","c","k">>

fJsonLd   == <<"j","s","o","n","-","l","d">> \o sProviderJs
fMyCustom == <<"m","y","-","c","u","s","t","o","m">> \o sProviderJs
fHelpers  == <<"h","e","l","p","e","r","s",".","j","s">>
fNotes    == <<"n","o","t","e","s",".","m","d">>

\* the declaration file and the TypeScript source that stand next to file
Declaration(file) == SubSeq(file, 1, Len(file) - 3) \o sDotDTs

TypeScript(file) == SubSeq(file, 1, Len(file) - 3) \o <<".","t","s">>

\* the provider-loader test's MockProvider
LoaderMockProvider == MockProvider(sMock, <<1, 1>>)

ClassOf(p) == [typeof |-> "function", constructs |-> "provider", instance |-> p]

PlainClass ==
  [typeof |-> "function", constructs |-> "other", instance |-> NoProvider]

ThrowingClass ==
  [typeof |-> "function", constructs |-> "throws", instance |-> NoProvider]

NotAClass ==
  [typeof |-> "object", constructs |-> "throws", instance |-> NoProvider]

ModuleOf(name, p) ==
  [throws |-> FALSE, exports |-> <<[name |-> name, value |-> ClassOf(p)]>>]

NoModules == [file \in {} |-> <<>>]

\* the modules of the repository's providers directory
OwnModules ==
  (fOpenGraph :> ModuleOf("OpenGraphProvider", OpenGraphProvider))
    @@ (fTwitter :> ModuleOf("TwitterProvider", TwitterProvider))
    @@ (fStandardMeta :> ModuleOf("StandardMetaProvider", StandardMetaProvider))
    @@ (fOtherElements
          :> ModuleOf("OtherElementsProvider", OtherElementsProvider))
    @@ (fJsonLd :> ModuleOf("JsonLdProvider", JsonLdProvider))

\* the loader's own providers directory: compiled, run from the TypeScript
\* sources, bundled away, or holding modules that fail or export no provider
OwnDirectories ==
  { [readable |-> TRUE,
     listing |-> <<fJsonLd, Declaration(fJsonLd), fOpenGraph,
                   Declaration(fOpenGraph), fOtherElements, fStandardMeta,
                   fTwitter>>,
     modules |-> OwnModules],
    [readable |-> TRUE,
     listing |-> <<TypeScript(fJsonLd), TypeScript(fOpenGraph),
                   TypeScript(fOtherElements), TypeScript(fStandardMeta),
                   TypeScript(fTwitter)>>,
     modules |-> OwnModules],
    [readable |-> FALSE, listing |-> <<>>, modules |-> OwnModules],
    [readable |-> TRUE,
     listing |-> <<fHelpers, fOpenGraph>>,
     modules |->
       (fOpenGraph :> [throws |-> TRUE, exports |-> <<>>])
         @@ (fHelpers
               :> [throws |-> FALSE,
                   exports |-> <<[name |-> "helper", value |-> NotAClass],
                                 [name |-> "Plain", value |-> PlainClass],
                                 [name |-> "Throwing",
                                  value |-> ThrowingClass]>>])] }

\* a directory of the caller: a provider file of its own, a provider file
\* named like a built-in one, no provider file
CustomDirectories ==
  { [readable |-> TRUE,
     listing |-> <<fMyCustom, fNotes>>,
     modules |-> (fMyCustom :> ModuleOf("MockProvider", LoaderMockProvider))],
    [readable |-> TRUE,
     listing |-> <<fOpenGraph>>,
     modules |-> (fOpenGraph :> ModuleOf("MockProvider", LoaderMockProvider))],
    [readable |-> TRUE,
     listing |-> <<fNotes, Declaration(fMyCustom)>>,
     modules |-> NoModules] }

FileSystems ==
  { own @@ custom :
      own \in {NoFiles} \cup {(sOwnDir :> d) : d \in OwnDirectories},
      custom \in {NoFiles} \cup {(sCustomDir :> d) : d \in CustomDirectories} }

ProvidersPaths == {Null, Empty, sCustomDir, sMissingDir}

\* lastOp names the caller's entry point: createScraper() or
\* loader.loadFromDirectory(providersPath)
InitLoader ==
  /\ fileSystem \in FileSystems
  /\ \/ lastOp = "createScraper" /\ providersPath = Null
     \/ lastOp = "loadFromDirectory" /\ providersPath \in ProvidersPaths
  /\ pc = "start"
  /\ loaded = <<>>
  /\ loaderCalls = <<>>
  /\ providers = <<>>
  /\ registered = <<>>
  /\ document = NoDocument
  /\ dispatched = <<>>
  /\ results = <<>>
  /\ NoDispatch
  /\ NoMetadata
  /\ NoCaller

LoaderCall(method, result) ==
  /\ loaded' = result
  /\ loaderCalls' = Append(loaderCalls, [method |-> method, result |-> result])

\* createScraper: let providers = await loader.loadFromDirectory()
CreateScraperLoadFromDirectory ==
  /\ lastOp = "createScraper" /\ pc = "start"
  /\ LoaderCall("loadFromDirectory", LoadFromDirectory(fileSystem, Null))
  /\ pc' = "loadFromDirectory returned"
  /\ UNCHANGED <<callerVars, registryVars, dispatchVars, metadataVars,
                 lastOp, fileSystem, providersPath, document, dispatched,
                 results>>

\* createScraper: if (providers.length === 0) providers = await
\* loader.loadDefaults()
CreateScraperFallback ==
  /\ lastOp = "createScraper" /\ pc = "loadFromDirectory returned"
  /\ IF IsEmptyList(loaded)
     THEN LoaderCall("loadDefaults", LoadDefaults(fileSystem))
     ELSE UNCHANGED <<loaded, loaderCalls>>
  /\ pc' = "providers"
  /\ UNCHANGED <<callerVars, registryVars, dispatchVars, metadataVars,
                 lastOp, fileSystem, providersPath, document, dispatched,
                 results>>

\* the caller's own await loader.loadFromDirectory(providersPath)
ManualLoadFromDirectory ==
  /\ lastOp = "loadFromDirectory" /\ pc = "start"
  /\ LoaderCall("loadFromDirectory",
                LoadFromDirectory(fileSystem, providersPath))
  /\ pc' = "providers"
  /\ UNCHANGED <<callerVars, registryVars, dispatchVars, metadataVars,
                 lastOp, fileSystem, providersPath, document, dispatched,
                 results>>

\* new ProviderRegistry(providers), new Scraper(registry)
ConstructScraper ==
  /\ pc = "providers"
  /\ providers' = NewProviderRegistry(loaded)
  /\ registered' = loaded
  /\ pc' = "scraper"
  /\ UNCHANGED <<callerVars, loaderVars, dispatchVars, metadataVars, lastOp,
                 document, dispatched, results>>

NextLoader ==
  \/ CreateScraperLoadFromDirectory
  \/ CreateScraperFallback
  \/ ManualLoadFromDirectory
  \/ ConstructScraper

SpecLoader == InitLoader /\ [][NextLoader]_vars

\* C18: createScraper builds its registry from what loadFromDirectory
\* returned when that list is not empty, calls loadDefaults, and uses its
\* result, exactly when loadFromDirectory returned an empty list, and never
\* calls loadDefaults before loadFromDirectory has returned.
C18_DefaultsOnlyWhenEmpty ==
  lastOp = "createScraper" =>
    /\ \A i \in 1..Len(loaderCalls) :
         loaderCalls[i].method = "loadDefaults" =>
           /\ i = 2
           /\ loaderCalls[1].method = "loadFromDirectory"
           /\ loaderCalls[1].result = <<>>
    /\ pc \in {"providers", "scraper"} =>
         /\ loaderCalls[1].method = "loadFromDirectory"
         /\ loaderCalls[1].result = LoadFromDirectory(fileSystem, Null)
         /\ IF loaderCalls[1].result # <<>>
            THEN Len(loaderCalls) = 1 /\ loaded = loaderCalls[1].result
            ELSE /\ Len(loaderCalls) = 2
                 /\ loaderCalls[2].method = "loadDefaults"
                 /\ loaded = LoadDefaults(fileSystem)
    /\ pc = "scraper" =>
         /\ registered = loaded
         /\ providers = NewProviderRegistry(loaded)

\* the directory listing held no .js file, the defaults were loaded, and the
\* registry holds the four default providers
C18_Witness ==
  /\ lastOp = "createScraper"
  /\ pc = "scraper"
  /\ sOwnDir \in DOMAIN fileSystem /\ fileSystem[sOwnDir].readable
  /\ Len(loaderCalls) = 2
  /\ loaderCalls[1].result = <<>>
  /\ providers = DefaultRegistry

\* the instances of the provider classes exported by the .js files of the
\* directory at path
ProvidersOfDirectory(fs, path) ==
  IF path \notin DOMAIN fs \/ ~fs[path].readable THEN <<>>
  ELSE LoadFilesOf(fs, path, SelectSeq(fs[path].listing, IsProviderFile))

\* C19: loadFromDirectory(path) returns instances of the provider classes
\* exported by the .js files of the directory path: every module it loads
\* is a file of that directory.
C19_LoadsFromGivenDirectory ==
  lastOp = "loadFromDirectory" /\ pc # "start" /\ Truthy(providersPath) =>
    loaded = ProvidersOfDirectory(fileSystem, providersPath)

(* ------------------------------------------------------------------ *)
(* SpecPhases: Scraper.scrape over registries with a custom provider    *)
(* and nodes several phases extract from                                *)
(* ------------------------------------------------------------------ *)

\* createScraperWithProviders: the default providers alone, and with the
\* tests' MockProvider
PhaseRegistries ==
  { DefaultRegistry,
    NewProviderRegistry(<<OpenGraphProvider, TwitterProvider,
                          StandardMetaProvider, OtherElementsProvider,
                          MockProvider(sMock1, <<1, 2>>)>>) }

PhaseNodes ==
  { Element(tagMETA, [property |-> sOgTitle, content |-> sA], Empty),
    Element(tagMETA, MockAttrs(sMock1, sTest, sA), Empty),
    Element(tagTITLE, <<>>, sB),
    Element(tagH1, <<>>, sA),
    Element(tagH1, MockAttrs(sMock1, sTest, sB), sB),
    Element(tagLINK, [rel |-> sIcon, href |-> sIconHref], Empty),
    Element(tagLINK, [rel |-> sIcon, href |-> sIconHref,
                      property |-> sOgTitle, content |-> sB], Empty) }

InitPhases ==
  /\ providers \in PhaseRegistries
  /\ registered = providers
  /\ lastOp = "constructor"
  /\ document
       \in {[exists |-> TRUE, querySelectorAll |-> TRUE, querySelector |-> qs,
             nodes |-> nodes] :
              qs \in BOOLEAN, nodes \in SeqsUpTo(PhaseNodes, MaxNodes)}
  /\ pc = "start"
  /\ dispatched = <<>>
  /\ results = <<>>
  /\ NoDispatch
  /\ NoMetadata
  /\ NoCaller
  /\ NoLoader

SpecPhases == InitPhases /\ [][NextScraper]_vars

\* the orders the four phases can run in
PhaseOrders ==
  {order \in [1..4 -> 1..4] : \A i, j \in 1..4 : order[i] = order[j] => i = j}

\* what every cross-cutting getter returns
Getters(provs, pd) ==
  [title |-> Title(provs, pd), description |-> Description(provs, pd),
   image |-> Image(provs, pd), url |-> Url(provs, pd),
   siteName |-> SiteName(provs, pd), favicon |-> Favicon(provs, pd)]

\* running the phases in order on the document yields the lists and the
\* getter values that scrape accumulated
SameAsScrape(order) ==
  LET pd == ScrapeInOrder(providers, FreshRun(providers), document.nodes,
                          order).providerData
  IN  /\ pd = providerData
      /\ Getters(providers, pd) = Getters(providers, providerData)

\* the (provider name, key) lists phase k appends to
PhaseTargets(provs, nodes, k) ==
  LET tags == PhaseTags(nodes, k)
  IN  { <<provs[ScrapeFromElement(provs, tags[i]).result.provider].name,
          ScrapeFromElement(provs, tags[i]).result.data.key>> :
          i \in {i \in 1..Len(tags) :
                   ScrapeFromElement(provs, tags[i]).result # NoExtraction} }

\* no list receives values from two phases
DisjointPhases(provs, nodes) ==
  \A k, l \in 1..4 :
    k # l => PhaseTargets(provs, nodes, k) \cap PhaseTargets(provs, nodes, l) = {}

\* C20 as stated: for every document and registry, running phases 1 to 4
\* in any order yields the same per-provider value lists and the same value
\* of every cross-cutting getter.
C20_AnyPhaseOrder ==
  pc = "done" => \A order \in PhaseOrders : SameAsScrape(order)

\* C20 as amended: running phases 1 to 4 in any order yields the same
\* per-provider value lists and the same value of every cross-cutting
\* getter whenever no two phases extract a value for the same provider name
\* and key.
C20_DisjointPhaseOrder ==
  pc = "done" /\ DisjointPhases(providers, document.nodes) =>
    \A order \in PhaseOrders : SameAsScrape(order)

\* three phases extracted, each into a list of its own
C20_Witness ==
  /\ pc = "done"
  /\ DisjointPhases(providers, document.nodes)
  /\ PhaseTargets(providers, document.nodes, 1) # {}
  /\ PhaseTargets(providers, document.nodes, 3) # {}
  /\ PhaseTargets(providers, document.nodes, 4) # {}
  /\ Len(added) = 3

(* ------------------------------------------------------------------ *)
(* Feed discovery and the provider system                               *)
(* ------------------------------------------------------------------ *)

\* the registries a Scraper is compared under
FeedRegistries == ScraperRegistries \cup PhaseRegistries

\* the feeds of the Metadata that scrape returns for nodes when the
\* Scraper's registry is provs: empty at new Metadata, left alone by phases
\* 1 to 4, filled by scrapeFeedLinks
FeedsOfScrape(provs, nodes) == ScraperScrapeFeedLinks(provs, <<>>, nodes)

\* the feed phase leaves the accumulated data and the dispatch history
FeedPhaseLeavesData ==
  pc = "scrapeFeedLinks" =>
    /\ providerData' = providerData
    /\ added' = added
    /\ calls' = calls
    /\ dispatched' = dispatched

\* C21: for a fixed document the feeds list scrape returns is the one it
\* returns under every other registry, the empty registry included, and
\* the feed phase changes nothing of the accumulated per-provider data.
C21_FeedsIndependentOfProviders ==
  /\ [](pc = "done" =>
          \A provs \in FeedRegistries :
            feeds = FeedsOfScrape(provs, document.nodes))
  /\ [][FeedPhaseLeavesData]_vars

\* a run with the default providers that accumulated a value and found a
\* feed, in a document where a feed link stands before the meta element
C21_Witness ==
  /\ pc = "done"
  /\ providers = DefaultRegistry
  /\ Len(document.nodes) = 2
  /\ IsFeedLink(document.nodes[1])
  /\ feeds = <<[title |-> sFeedName, type |-> sRss, href |-> sFeedXml]>>
  /\ StoredList(providerData, sOpenGraph, sTitle) = <<sA>>

(* ------------------------------------------------------------------ *)
(* SpecJsonLd: the five provider classes, JsonLdProvider among them,    *)
(* and a registry holding them                                          *)
(* ------------------------------------------------------------------ *)

tagSCRIPT     == <<"S","C","R","I","P","T">>
sTextJs       == <<"t","e","x","t","/","j","s">>
sOrganization == <<"O","r","g">>

\* what the object says of its @type, headline, description and image
TypeMembers ==
  { <<>>,
    <<Member(sAtType, JStr(sArticle))>>,
    <<Member(sAtType, JStr(sWebPage))>>,
    <<Member(sAtType, JStr(sOrganization))>>,
    <<Member(sAtType, JArr(<<JStr(sArticle)>>))>> }

HeadlineMembers ==
  { <<>>,
    <<Member(sHeadline, JStr(sA))>>,
    <<Member(sHeadline, JStr(Empty))>>,
    <<Member(sHeadline, JNull)>>,
    <<Member(sHeadline, JNum(5))>> }

DescriptionMembers ==
  { <<>>,
    <<Member(sDescription, JStr(sB))>>,
    <<Member(sDescription, JStr(Empty))>> }

ImageMembers ==
  { <<>>,
    <<Member(sImage, JObj(<<Member(sUrl, JStr(sIconHref))>>))>>,
    <<Member(sImage, JObj(<<Member(sUrl, JStr(Empty))>>))>>,
    <<Member(sImage, JObj(<<>>))>>,
    <<Member(sImage, JStr(sIconHref))>>,
    <<Member(sImage, JNull)>> }

\* the objects a page states: @type first, and @type last after the
\* description and the headline
JsonObjects ==
  {JObj(t \o h \o d \o i) :
     t \in TypeMembers, h \in HeadlineMembers, d \in DescriptionMembers,
     i \in ImageMembers}
  \cup {JObj(d \o h \o t) :
          t \in TypeMembers, h \in HeadlineMembers, d \in DescriptionMembers}

\* texts that are no JSON, or JSON that is no object
OtherTexts ==
  { Null, Empty,
    <<"i","n","v","a","l","i","d"," ","j","s","o","n">>,
    <<"{">> \o Quote(sAtType) \o <<":"," ">> \o Quote(sArticle)
      \o <<","," ">> \o Quote(sHeadline) \o <<":","}">>,
    <<"{">> \o Quote(sAtType) \o <<":">> \o Quote(sArticle) \o <<",","}">>,
    <<"{">> \o Quote(sAtType) \o <<":">> \o Quote(sArticle),
    <<"n","u","l","l">>,
    <<"4","2">>,
    <<"t","r","u","e">>,
    Quote(sArticle),
    <<"[","]">>,
    JsonStringify(JArr(<<JObj(<<Member(sAtType, JStr(sArticle)),
                               Member(sHeadline, JStr(sA))>>)>>)) }

\* an object's text as JSON.stringify writes it, and with white space
\* around it
JsonTexts ==
  {JsonStringify(v) : v \in JsonObjects}
  \cup {<<" ", "\n">> \o JsonStringify(v) \o <<"\n">> :
          v \in {JObj(t \o h) : t \in TypeMembers, h \in HeadlineMembers}}
  \cup OtherTexts

JsonLdElements ==
  { Element(tag, [type |-> ty] @@ meta, tx) :
      tag \in {tagSCRIPT, tagDIV},
      ty \in {Null, sLdJson, sTextJs},
      meta \in {<<>>, [name |-> sTitle, content |-> sA]},
      tx \in JsonTexts }

\* the provider classes of ./providers
AllProviders ==
  { OpenGraphProvider, TwitterProvider, StandardMetaProvider,
    OtherElementsProvider, JsonLdProvider }

\* the registry createScraper builds when ./providers holds the five files
JsonLdRegistry ==
  NewProviderRegistry(<<JsonLdProvider, OpenGraphProvider,
                        OtherElementsProvider, StandardMetaProvider,
                        TwitterProvider>>)

InitJsonLd ==
  /\ provider \in AllProviders
  /\ node \in JsonLdElements
  /\ returned = Null
  /\ handed = NoList
  /\ lastOp = "constructor"
  /\ providers = JsonLdRegistry
  /\ registered = providers
  /\ NoDispatch
  /\ NoMetadata
  /\ NoScraper
  /\ NoLoader

\* registry.scrapeFromElement(node)
DispatchNode == DispatchElement(node)

NextJsonLd ==
  \/ ProviderCanHandle
  \/ ProviderScrape
  \/ DispatchNode

SpecJsonLd == InitJsonLd /\ [][NextJsonLd]_vars

\* C22: every concrete provider (OpenGraph, Twitter, StandardMeta,
\* OtherElements, JsonLd) re-checks recognition: for every node on which
\* its canHandle returns false, its scrape returns none.
C22_ScrapeRechecksCanHandle ==
  lastOp = "scrape" /\ ~CanHandle(provider, node) => returned = NoData

\* the object the node's text states, when it states one
StatesObject(el) ==
  /\ Truthy(el.textContent)
  /\ JsonParse(el.textContent).ok
  /\ JsonParse(el.textContent).value.t = "object"

ObjectOf(el) == JsonParse(el.textContent).value

\* the object's @type is the string Article or the string WebPage
Considered(v) ==
  LET type == GetProperty(v, sAtType)
  IN  type.t = "string" /\ type.s \in {sArticle, sWebPage}

\* the field is there with a value
IsPresent(v) == v.t \notin {"undefined", "null"}

\* the field is there with a value that is not empty: neither "", null,
\* 0 nor false
IsNonEmpty(v) == JsonTruthy(v)

\* the url of the object's image
ImageUrl(v) == GetProperty(GetProperty(v, sImage), sUrl)

\* what scrape returned is the first of headline, description and
\* image.url that Has holds of, under the key title, description or image,
\* and none when the @type is another or Has holds of no field
FirstFieldWins(Has(_)) ==
  lastOp = "scrape" /\ provider = JsonLdProvider /\ StatesObject(node) =>
    LET v           == ObjectOf(node)
        headline    == GetProperty(v, sHeadline)
        description == GetProperty(v, sDescription)
    IN  /\ returned # NoData => Considered(v)
        /\ Considered(v) /\ Has(headline) =>
             returned = KeyValue(sTitle, ValueOf(headline))
        /\ Considered(v) /\ ~Has(headline) /\ Has(description) =>
             returned = KeyValue(sDescription, ValueOf(description))
        /\ Considered(v) /\ ~Has(headline) /\ ~Has(description)
             /\ Has(ImageUrl(v)) =>
             returned = KeyValue(sImage, ValueOf(ImageUrl(v)))
        /\ Considered(v) /\ ~Has(headline) /\ ~Has(description)
             /\ ~Has(ImageUrl(v)) =>
             returned = NoData

\* C24 as stated: JsonLdProvider.scrape considers only an object whose
\* @type is Article or WebPage and returns the first present field in the
\* order headline (key title), description (key description), image.url
\* (key image); an object with none of the three or another @type yields
\* none.
C24_FirstPresentField == FirstFieldWins(IsPresent)

\* C24 as amended: JsonLdProvider.scrape considers only an object whose
\* @type is Article or WebPage and returns the first field that is present
\* and not empty in the order headline (key title), description (key
\* description), image.url (key image); an empty headline is passed over
\* for the description, an empty description for the image, and an object
\* with none of the three non-empty or with another @type yields none.
C24_FirstNonEmptyField == FirstFieldWins(IsNonEmpty)

\* an Article with a headline, a description and an image yielded its
\* headline as the title
C24_Witness ==
  /\ lastOp = "scrape"
  /\ provider = JsonLdProvider
  /\ StatesObject(node)
  /\ Considered(ObjectOf(node))
  /\ IsNonEmpty(GetProperty(ObjectOf(node), sHeadline))
  /\ IsNonEmpty(GetProperty(ObjectOf(node), sDescription))
  /\ IsNonEmpty(ImageUrl(ObjectOf(node)))
  /\ returned = KeyValue(sTitle, sA)

\* the text is absent, empty, no JSON, or JSON that states no object
NoObjectText(el) == ~StatesObject(el)

\* the providers after the one at index i that recognize el and extract
\* from it
LaterExtracting(provs, el, i) ==
  {j \in (i + 1)..Len(provs) :
     CanHandle(provs[j], el) /\ Scrape(provs[j], el) # NoData}

\* C25: for a text content that is absent, empty, not parsable as JSON or
\* parsable to a value that is no object, JsonLdProvider.scrape returns
\* none and raises nothing, and a dispatch of such a node that JsonLdProvider
\* recognizes goes on with the remaining providers: each is asked in turn
\* and the first of them that recognizes and extracts is the result.
C25_NoFailurePropagates ==
  /\ lastOp = "scrape" /\ provider = JsonLdProvider /\ NoObjectText(node) =>
       returned = NoData
  /\ lastOp = "scrapeFromElement" /\ NoObjectText(element)
       /\ JsonLdCanHandle(element) =>
       LET later == LaterExtracting(providers, element, 1)
       IN  /\ providers[1] = JsonLdProvider
           /\ Len(calls) >= 3
           /\ SubSeq(calls, 1, 3)
                = << <<"canHandle", 1>>, <<"scrape", 1>>, <<"canHandle", 2>> >>
           /\ extraction.provider # 1
           /\ later = {} =>
                /\ extraction = NoExtraction
                /\ \A j \in 2..Len(providers) :
                     \E c \in 1..Len(calls) : calls[c] = <<"canHandle", j>>
           /\ later # {} =>
                /\ extraction.provider \in later
                /\ \A j \in later : extraction.provider <= j
                /\ extraction.data
                     = Scrape(providers[extraction.provider], element)

\* a script element of type application/ld+json whose text is no JSON and
\* which carries a name and a content attribute: JsonLdProvider was asked
\* and StandardMetaProvider extracted
C25_Witness ==
  /\ lastOp = "scrapeFromElement"
  /\ JsonLdCanHandle(element)
  /\ Truthy(element.textContent)
  /\ ~JsonParse(element.textContent).ok
  /\ \E c \in 1..Len(calls) : calls[c] = <<"scrape", 1>>
  /\ extraction.provider # 0
  /\ providers[extraction.provider] = StandardMetaProvider
  /\ extraction.data = KeyValue(sTitle, sA)

(* ------------------------------------------------------------------ *)
(* The dispatches of a scrape run, call by call                         *)
(* ------------------------------------------------------------------ *)

\* A dispatch over a registry that holds a provider begins by asking the
\* first provider: the calls at which a dispatch begins
DispatchStarts == {c \in 1..Len(calls) : calls[c] = <<"canHandle", 1>>}

\* the dispatch call c belongs to, by its number, and the node it is for
DispatchOfCall(c) == Cardinality({b \in DispatchStarts : b <= c})

NodeOfCall(c) == dispatched[DispatchOfCall(c)]

\* call c is a scrape that yielded a value
ExtractingCall(c) ==
  /\ calls[c][1] = "scrape"
  /\ Scrape(providers[calls[c][2]], NodeOfCall(c)) # NoData

\* C23: when a provider's scrape yields a value for a node, it is the last
\* call the registry makes for that node, so that no provider later in
\* priority order has canHandle or scrape called for it, and the Scraper
\* accumulates one (provider, key, value) for that node and none for a node
\* no provider extracted from: never more than one per dispatched node.
C23_ReturnsAtFirstExtraction ==
  providers # <<>> /\ pc \notin {"idle", "start"} =>
    /\ Cardinality(DispatchStarts) = Len(dispatched)
    /\ \A c \in 1..Len(calls) :
         ExtractingCall(c) =>
           /\ c = Len(calls) \/ calls[c + 1] = <<"canHandle", 1>>
           /\ \A b \in 1..Len(calls) :
                DispatchOfCall(b) = DispatchOfCall(c) =>
                  b <= c /\ calls[b][2] <= calls[c][2]
    /\ Len(added) = Cardinality({c \in 1..Len(calls) : ExtractingCall(c)})
    /\ Len(added) <= Len(dispatched)

\* a link element that OpenGraphProvider extracted from and that
\* OtherElementsProvider, later in the order, recognizes and would have
\* extracted from: two calls were made and one value accumulated
C23_Witness ==
  /\ pc = "done"
  /\ providers = DefaultRegistry
  /\ Len(dispatched) = 1
  /\ LaterExtracting(providers, dispatched[1], 1) # {}
  /\ calls = << <<"canHandle", 1>>, <<"scrape", 1>> >>
  /\ Len(added) = 1
  /\ added[1].providerName = sOpenGraph

(* ------------------------------------------------------------------ *)
(* SpecStructured: Scraper.scrape over a registry that holds            *)
(* JsonLdProvider, on documents with script elements                    *)
(* ------------------------------------------------------------------ *)

sArticleText ==
  JsonStringify(JObj(<<Member(sAtType, JStr(sArticle)),
                       Member(sHeadline, JStr(sA))>>))

StructuredNodes ==
  { Element(tagSCRIPT, [type |-> sLdJson], sArticleText),
    Element(tagSCRIPT, [type |-> sTextJs], sA),
    Element(tagMETA, [property |-> sOgTitle, content |-> sB], Empty),
    Element(tagMETA, [name |-> sTitle], Empty),
    Element(tagTITLE, <<>>, sB),
    Element(tagH1, <<>>, sA),
    Element(tagH1, <<>>, sB),
    Element(tagLINK, [rel |-> sIcon, href |-> sIconHref], Empty),
    Element(tagLINK, [rel |-> Empty, href |-> sIconHref], Empty),
    Element(tagLINK, [href |-> sIconHref], Empty) }

StructuredRegistries ==
  {JsonLdRegistry, NewProviderRegistry(<<JsonLdProvider>>)}

InitStructured ==
  /\ providers \in StructuredRegistries
  /\ registered = providers
  /\ lastOp = "constructor"
  /\ document
       \in {[exists |-> TRUE, querySelectorAll |-> TRUE,
             querySelector |-> TRUE, nodes |-> nodes] :
              nodes \in SeqsUpTo(StructuredNodes, MaxNodes)}
  /\ pc = "start"
  /\ dispatched = <<>>
  /\ results = <<>>
  /\ NoDispatch
  /\ NoMetadata
  /\ NoCaller
  /\ NoLoader

SpecStructured == InitStructured /\ [][NextScraper]_vars

\* the positions of list that hold an element Is holds of
Positions(list, Is(_)) == {i \in 1..Len(list) : Is(list[i])}

IsMetaElement(el) == TagLower(el) = sMeta

IsTitleElement(el) == TagLower(el) = sTitle

IsH1Element(el) == TagLower(el) = sH1

IsLinkWithRel(el) == TagLower(el) = sLink /\ GetAttribute(el, "rel") # Null

\* the positions of the document scrape hands to the registry: every
\* meta element, the first title, the first h1, every link with a rel
\* attribute
Dispatchable(nodes) ==
  LET titles == Positions(nodes, IsTitleElement)
      h1s    == Positions(nodes, IsH1Element)
  IN  Positions(nodes, IsMetaElement)
        \cup {i \in titles : \A j \in titles : i <= j}
        \cup {i \in h1s : \A j \in h1s : i <= j}
        \cup Positions(nodes, IsLinkWithRel)

\* dispatched holds the elements of nodes at distinct positions of among,
\* one position per entry
DispatchedFrom(nodes, among) ==
  \E at \in [1..Len(dispatched) -> among] :
    /\ \A k, l \in 1..Len(dispatched) : at[k] = at[l] => k = l
    /\ \A k \in 1..Len(dispatched) : dispatched[k] = nodes[at[k]]

\* C26: in one scrape run the registry is handed only meta elements, the
\* first title, the first h1 and link elements with a rel attribute, each
\* at most once and, when the run is done, each of them once; no script
\* element is handed to it, the values accumulated are never more than
\* those nodes, and nothing is accumulated under the name of a registered
\* JsonLdProvider.
C26_OnlyPhaseNodesDispatched ==
  pc \notin {"idle", "start"} =>
    /\ DispatchedFrom(document.nodes, Dispatchable(document.nodes))
    /\ pc = "done" =>
         Len(dispatched) = Cardinality(Dispatchable(document.nodes))
    /\ \A k \in 1..Len(dispatched) : TagLower(dispatched[k]) # sScript
    /\ Len(added) <= Cardinality(Dispatchable(document.nodes))
    /\ \A c \in 1..Len(added) : added[c].providerName # sJsonLd
    /\ sJsonLd \in DOMAIN providerData => providerData[sJsonLd] = EmptyMap

\* a finished run over a registry with JsonLdProvider on a document that
\* holds an Article script the provider extracts a title from and two h1
\* elements: the first h1 alone was dispatched
C26_Witness ==
  /\ pc = "done"
  /\ providers = JsonLdRegistry
  /\ Len(document.nodes) = MaxNodes
  /\ \E i \in 1..Len(document.nodes) :
       /\ JsonLdCanHandle(document.nodes[i])
       /\ JsonLdScrape(document.nodes[i]) = KeyValue(sTitle, sA)
  /\ Cardinality(Positions(document.nodes, IsH1Element)) = 2
  /\ Len(dispatched) = 1
  /\ Len(added) = 1
  /\ added[1].providerName = sOther
  /\ providerData[sJsonLd] = EmptyMap

(* ------------------------------------------------------------------ *)
(* StandardMetaProvider beside the two prefixed meta providers          *)
(* ------------------------------------------------------------------ *)

\* C27: StandardMetaProvider.canHandle is true of a node only if
\* OpenGraphProvider.canHandle and TwitterProvider.canHandle are both false
\* of it, and the key StandardMetaProvider extracts, under which the data
\* is recorded for meta, never starts with og: or twitter:.
C27_StandardMetaExcludesPrefixed ==
  /\ lastOp = "canHandle" /\ provider = StandardMetaProvider /\ returned =>
       ~OpenGraphCanHandle(node) /\ ~TwitterCanHandle(node)
  /\ lastOp = "scrape" /\ provider = StandardMetaProvider
       /\ returned # NoData =>
       /\ ~StartsWith(returned.key, sOgPrefix)
       /\ ~StartsWith(returned.key, sTwitterPrefix)
       /\ ~OpenGraphCanHandle(node) /\ ~TwitterCanHandle(node)

\* StandardMetaProvider extracted from a node that carries both a name and
\* a property, neither of them prefixed
C27_Witness ==
  /\ lastOp = "scrape"
  /\ provider = StandardMetaProvider
  /\ GetAttribute(node, "property") = sXxTitle
  /\ GetAttribute(node, "name") = sTitle
  /\ returned = KeyValue(sTitle, sA)

(* ------------------------------------------------------------------ *)
(* SpecRepeat: several scrape calls on one Scraper                      *)
(* ------------------------------------------------------------------ *)

RepeatNodes ==
  <<Element(tagMETA, [property |-> sOgTitle, content |-> sA], Empty),
    Element(tagMETA, [property |-> sOgTitle, content |-> sB], Empty),
    Element(tagTITLE, <<>>, sB),
    Element(tagLINK, [rel |-> sAlternate, href |-> sFeedXml, type |-> sRss,
                      title |-> sFeedName], Empty)>>

\* a document of these nodes
DocumentOf(nodes) ==
  [exists |-> TRUE, querySelectorAll |-> TRUE, querySelector |-> TRUE,
   nodes |-> nodes]

\* the documents the calls are made with: an empty one, pages that share
\* nodes, one page twice as long as another, and two arguments on which scrape
\* fails, one before and one after new Metadata
RepeatDocuments ==
  { DocumentOf(<<>>),
    DocumentOf(<<RepeatNodes[1]>>),
    DocumentOf(<<RepeatNodes[2]>>),
    DocumentOf(<<RepeatNodes[3], RepeatNodes[4]>>),
    DocumentOf(<<RepeatNodes[1], RepeatNodes[2]>>),
    DocumentOf(<<RepeatNodes[2], RepeatNodes[1], RepeatNodes[4]>>),
    [DocumentOf(<<RepeatNodes[1]>>) EXCEPT !.querySelector = FALSE],
    NoDocument }

InitRepeat ==
  /\ providers \in ScraperRegistries
  /\ registered = providers
  /\ lastOp = "constructor"
  /\ document \in RepeatDocuments
  /\ pc = "start"
  /\ dispatched = <<>>
  /\ results = <<>>
  /\ NoDispatch
  /\ NoMetadata
  /\ NoCaller
  /\ NoLoader

\* The caller takes what the last call came to and calls scrape(doc) on
\* the same Scraper: a resolved call handed out this.result itself, a
\* rejected one no Metadata. The histories start anew with the call.
ScrapeAgain(doc) ==
  /\ pc \in {"done", "TypeError"}
  /\ Len(results) < MaxScrapes - 1
  /\ results' = Append(results,
                       IF pc = "done"
                       THEN [resolved |-> TRUE, alias |-> TRUE,
                             providerData |-> providerData, feeds |-> feeds,
                             document |-> document]
                       ELSE [resolved |-> FALSE, alias |-> FALSE,
                             providerData |-> EmptyMap, feeds |-> <<>>,
                             document |-> document])
  /\ document' = doc
  /\ pc' = "start"
  /\ added' = <<>>
  /\ calls' = <<>>
  /\ dispatched' = <<>>
  /\ UNCHANGED <<callerVars, loaderVars, registryVars, lastOp, element,
                 extraction, providerData, feeds>>

NextRepeat ==
  \/ NextScraper
  \/ \E doc \in RepeatDocuments : ScrapeAgain(doc)

SpecRepeat == InitRepeat /\ [][NextRepeat]_vars

\* what one scrape call on a new Scraper with this registry accumulates
\* for nodes
DataOfScrape(provs, nodes) ==
  ScrapeInOrder(provs, FreshRun(provs), nodes, <<1, 2, 3, 4>>).providerData

\* no step changes what a Metadata returned earlier holds
EarlierResultsKept ==
  /\ Len(results') >= Len(results)
  /\ \A i \in 1..Len(results) :
       /\ results'[i].providerData = results[i].providerData
       /\ results'[i].feeds = results[i].feeds

\* C28: each scrape call starts from an empty Metadata of its own: no later
\* call adds to or changes the data or the feeds of a Metadata an earlier
\* call returned, and what a call returns is what a first call on a new
\* Scraper returns for the same document and registry.
C28_FreshMetadataPerCall ==
  /\ [][EarlierResultsKept]_vars
  /\ [](pc = "scrapeMetaTags" =>
          providerData = NewMetadata(providers) /\ feeds = <<>>)
  /\ [](pc = "done" =>
          /\ providerData = DataOfScrape(providers, document.nodes)
          /\ feeds = FeedsOfScrape(providers, document.nodes)
          /\ \A i \in 1..Len(results) :
               results[i].resolved =>
                 /\ results[i].providerData
                      = DataOfScrape(providers, results[i].document.nodes)
                 /\ results[i].feeds
                      = FeedsOfScrape(providers, results[i].document.nodes))

\* a second call, on a page that shares a node with the first call's page,
\* is done: each Metadata holds the values and the feed of its own page
C28_Witness ==
  /\ pc = "done"
  /\ providers = DefaultRegistry
  /\ Len(results) = 1
  /\ results[1].resolved
  /\ results[1].document = DocumentOf(<<RepeatNodes[1], RepeatNodes[2]>>)
  /\ document
       = DocumentOf(<<RepeatNodes[2], RepeatNodes[1], RepeatNodes[4]>>)
  /\ StoredList(results[1].providerData, sOpenGraph, sTitle) = <<sA, sB>>
  /\ results[1].feeds = <<>>
  /\ StoredList(providerData, sOpenGraph, sTitle) = <<sB, sA>>
  /\ Len(feeds) = 1

(* ------------------------------------------------------------------ *)
(* SpecLateRegistration: providers registered after the Metadata was    *)
(* created                                                              *)
(* ------------------------------------------------------------------ *)

\* the providers registered: built-in ones and custom ones, with the
\* default getValue and with one of their own, before and after every
\* built-in priority
LatePool ==
  { OpenGraphProvider, OtherElementsProvider,
    MockProvider(sMock1, <<1, 2>>),
    EagerProvider(sMock1, <<1, 2>>),
    EagerProvider(sMock2, <<5, 1>>),
    EagerProvider(sOpenGraph, <<1, 2>>),
    MockProvider(sToString, <<1, 2>>),
    EagerProvider(sToString, <<5, 1>>) }

LateNames == {sOpenGraph, sMock1}

LateKeys == {sTitle, sIcon}

InitLateRegistration ==
  /\ providers \in {NewProviderRegistry(list) : list \in SeqsUpTo(LatePool, 1)}
  /\ registered = providers
  /\ lastOp = "constructor"
  /\ providerData = NewMetadata(providers)
  /\ feeds = <<>>
  /\ added = <<>>
  /\ NoDispatch
  /\ NoScraper
  /\ NoCaller
  /\ NoLoader

NextLateRegistration ==
  \/ \E n \in LateNames, k \in LateKeys : AddData(n, k, sA)
  \/ \E p \in LatePool : RegisterProvider(p)

SpecLateRegistration == InitLateRegistration /\ [][NextLateRegistration]_vars

\* the step registers a provider
Registers == lastOp' = "registerProvider" /\ Len(registered') = Len(registered) + 1

\* the provider the step registers
Registering == registered'[Len(registered')]

\* the step leaves favicon, title, description, image, url and siteName as
\* they were
GettersKept ==
  Getters(providers', providerData) = Getters(providers, providerData)

\* C29: registering, after the Metadata was created, a provider under a
\* name the Metadata holds no data for (no Map: none of the providers
\* registered when it was created, none of the names data was added under)
\* changes none of favicon, title, description, image, url and siteName,
\* whatever the provider's priority and getValue.
C29_LateProviderLeavesGetters ==
  [][Registers /\ Registering.name \notin DOMAIN providerData => GettersKept
    ]_vars

\* The same for the names no object literal inherits a member under.
LateProviderLeavesGettersUnlessInherited ==
  [][Registers
       /\ Registering.name \notin DOMAIN providerData
       /\ Registering.name \notin ObjectPrototypeNames
       => GettersKept
    ]_vars

\* a provider whose getValue answers whatever the data was registered
\* before every other one, under a name of its own, and the title is still
\* the one accumulated under openGraph
LateProviderRegistered ==
  /\ lastOp = "registerProvider"
  /\ Len(providers) = 2
  /\ providers[1] = EagerProvider(sMock1, <<1, 2>>)
  /\ registered[2] = providers[1]
  /\ sMock1 \notin DOMAIN providerData
  /\ StoredList(providerData, sOpenGraph, sTitle) = <<sA>>
  /\ Title(providers, providerData) = sA
  /\ Favicon(providers, providerData) = sFaviconIco

(* ------------------------------------------------------------------ *)
(* SpecEmptyValues: empty strings accumulated under every key the       *)
(* getters read                                                         *)
(* ------------------------------------------------------------------ *)

GetterKeys ==
  {sTitle, sFirstHeading, sIcon, sShortcutIcon, sDescription, sImage, sUrl,
   sSiteName, sSite}

EmptyOrNot == {Empty, sA}

NextEmptyValues ==
  \E n \in MetadataNames, k \in GetterKeys, v \in EmptyOrNot : AddData(n, k, v)

SpecEmptyValues == InitMetadata /\ [][NextEmptyValues]_vars

\* pd with every list that starts with the empty string emptied
WithoutEmptyFirst(pd) ==
  [n \in DOMAIN pd |->
     [k \in DOMAIN pd[n] |->
        IF pd[n][k] # <<>> /\ pd[n][k][1] = Empty THEN <<>> ELSE pd[n][k]]]

\* C30: whatever strings addData was called with, the empty string among
\* them, title, description, image, url and siteName are each absent or a
\* non-empty string and favicon is a non-empty string; every getter returns
\* what it would return had each list that starts with the empty string
\* held nothing, so such a list is passed over for the next provider or the
\* fallback key.
C30_GettersNeverEmpty ==
  LET g == Getters(providers, providerData)
  IN  /\ \A f \in {"title", "description", "image", "url", "siteName"} :
           g[f] = Null \/ g[f] \in EmptyOrNot \ {Empty}
      /\ g.favicon \in (EmptyOrNot \ {Empty}) \cup {sFaviconIco}
      /\ g = Getters(providers, WithoutEmptyFirst(providerData))

\* the provider tried first holds the empty string as title and nothing
\* else, the title comes from the other provider's firstHeading, siteName
\* is absent and favicon is the default
C30_Witness ==
  /\ Len(providers) = 2
  /\ providers[1].name # providers[2].name
  /\ StoredList(providerData, providers[1].name, sTitle) = <<Empty>>
  /\ StoredList(providerData, providers[2].name, sFirstHeading) = <<sA>>
  /\ Title(providers, providerData) = sA
  /\ SiteName(providers, providerData) = Null
  /\ Favicon(providers, providerData) = sFaviconIco

====
